---- MODULE Spec2Model ----
(***************************************************************************)
(* Model of the cursor-agent bridge of obsidian-cursor-agent:              *)
(*   src/src/cursor/auth.ts    getAuthConfig, checkCursorLogin             *)
(*   src/src/cursor/cli.ts     candidates, spawnCursorAgentPiped, exec     *)
(*   src/src/cursor/bridge.ts  CursorBridge (send, cancel, decoder)        *)
(*                                                                         *)
(* Text is modelled as a sequence of one-character strings.  The output of *)
(* the login probe is modelled as a sequence of words (a blank between two *)
(* neighbouring words is implied, "\n" is a word of its own).              *)
(***************************************************************************)
EXTENDS Integers, Sequences, FiniteSets, TLC

\* ------------------------------------------------------------------------
\* Bounds of the model
\* ------------------------------------------------------------------------
MaxOut == 3
MaxLines == 2

\* ------------------------------------------------------------------------
\* JavaScript values
\* ------------------------------------------------------------------------
\* an absent string (undefined); no text holds this element
NoStr == <<"undefined">>
\* null and undefined of atomic values (session ids, exit codes)
NULL == "null"
UNDEF == "undefined"

\* the exit codes of a process that exits by itself; the code of a process
\* ended by a signal is null
ExitCodes == {"0", "1"}

\* characters that String.prototype.trim removes
WhiteSpace == {" ", "\t", "\r", "\n"}

RECURSIVE TrimStart(_)
TrimStart(s) ==
    IF s # <<>> /\ Head(s) \in WhiteSpace THEN TrimStart(Tail(s)) ELSE s

RECURSIVE TrimEnd(_)
TrimEnd(s) ==
    IF s # <<>> /\ s[Len(s)] \in WhiteSpace
        THEN TrimEnd(SubSeq(s, 1, Len(s) - 1))
        ELSE s

\* String.prototype.trim
Trim(s) == TrimEnd(TrimStart(s))

\* x?.trim()
OptTrim(s) == IF s = NoStr THEN NoStr ELSE Trim(s)

\* truthiness of an optional string
TruthyStr(s) == s # NoStr /\ s # <<>>

\* truthiness of an atomic optional value
Truthy(v) == v \notin {NULL, UNDEF, ""}

\* String.prototype.includes: needle is a contiguous part of hay
Includes(hay, needle) ==
    \E i \in 0..(Len(hay) - Len(needle)) :
        \A j \in 1..Len(needle) : hay[i + j] = needle[j]

\* all sequences over S of length at most n
RECURSIVE SeqsUpTo(_, _)
SeqsUpTo(S, n) ==
    IF n = 0 THEN {<<>>}
    ELSE LET shorter == SeqsUpTo(S, n - 1)
         IN  shorter \cup {Append(s, x) : s \in {t \in shorter : Len(t) = n - 1}, x \in S}

\* ------------------------------------------------------------------------
\* auth.ts
\* ------------------------------------------------------------------------
\* words of the probe's output (with the case the CLI may print them in)
ProbeWords == {"not", "logged", "Logged", "in", "authenticated"}

LowerWord(w) == IF w = "Logged" THEN "logged" ELSE w

\* String.prototype.toLowerCase
ToLowerCase(s) == [i \in 1..Len(s) |-> LowerWord(s[i])]

\* (the text is classified before the exit code is looked at)
checkCursorLogin_M(res) ==
    LET out == ToLowerCase(res.stdout \o <<"\n">> \o res.stderr)
    IN  IF Includes(out, <<"not", "logged">>) THEN FALSE
        ELSE IF Includes(out, <<"logged", "in">>) THEN TRUE
        ELSE IF Includes(out, <<"authenticated">>) THEN TRUE
        ELSE res.code = "0"

\* checkCursorLogin, after execCursorAgent has resolved with res
checkCursorLogin(res) ==
    IF res.code # "0" THEN FALSE
    ELSE LET out == ToLowerCase(res.stdout \o <<"\n">> \o res.stderr)
         IN  IF Includes(out, <<"not", "logged">>) THEN FALSE
             ELSE IF Includes(out, <<"logged", "in">>) THEN TRUE
             ELSE IF Includes(out, <<"authenticated">>) THEN TRUE
             ELSE TRUE

\* (the environment is not looked at)
EnvAuthenticates_M(env) == FALSE

\* getAuthConfig: the environment credential decides without a probe
EnvAuthenticates(env) == TruthyStr(OptTrim(env))

AuthEnv == [isAuthenticated |-> TRUE, source |-> "env", args |-> <<>>]

\* (the configured key is tested without trimming it)
AuthAfterProbe_M(loggedIn, apiKey) ==
    IF loggedIn
        THEN [isAuthenticated |-> TRUE, source |-> "login", args |-> <<>>]
    ELSE IF TruthyStr(apiKey)
        THEN [isAuthenticated |-> TRUE, source |-> "api-key",
              args |-> << <<"--api-key">>, apiKey >>]
    ELSE [isAuthenticated |-> FALSE, source |-> "none", args |-> <<>>]

\* getAuthConfig, after checkCursorLogin has returned isLoggedIn
AuthAfterProbe(loggedIn, apiKey) ==
    IF loggedIn
        THEN [isAuthenticated |-> TRUE, source |-> "login", args |-> <<>>]
    ELSE IF TruthyStr(OptTrim(apiKey))
        THEN [isAuthenticated |-> TRUE, source |-> "api-key",
              args |-> << <<"--api-key">>, apiKey >>]
    ELSE [isAuthenticated |-> FALSE, source |-> "none", args |-> <<>>]

\* ------------------------------------------------------------------------
\* cli.ts
\* ------------------------------------------------------------------------
\* (the configured path is not trimmed)
getCursorAgentCommandCandidates_M(cursorAgentPath, plat) ==
    IF TruthyStr(cursorAgentPath) THEN <<cursorAgentPath>>
    ELSE IF plat = "win32"
        THEN << <<"cursor-agent.cmd">>, <<"cursor-agent.exe">>,
                <<"cursor-agent.bat">>, <<"cursor-agent">> >>
    ELSE << <<"cursor-agent">> >>

\* getCursorAgentCommandCandidates; a command name is a text
getCursorAgentCommandCandidates(cursorAgentPath, plat) ==
    LET configured == OptTrim(cursorAgentPath)
    IN  IF TruthyStr(configured) THEN <<configured>>
        ELSE IF plat = "win32"
            THEN << <<"cursor-agent.cmd">>, <<"cursor-agent.exe">>,
                    <<"cursor-agent.bat">>, <<"cursor-agent">> >>
        ELSE << <<"cursor-agent">> >>

\* ------------------------------------------------------------------------
\* bridge.ts: the decoder
\* ------------------------------------------------------------------------
\* A JSON object is written "{" k "}", k naming its type/subtype:
\*   i1, i2  system/init with session_id s1, s2     s  system, other subtype
\*   u  user     a  assistant     t  tool_call      r  result
\*   o  an object of no known type
\* "null" is the JSON value null; any other text is not JSON.
ObjectKinds == {"i1", "i2", "s", "u", "a", "t", "r", "o"}

\* String.prototype.split("\n"): the segments between the newlines
RECURSIVE SplitLines(_)
SplitLines(s) ==
    IF \A i \in 1..Len(s) : s[i] # "\n" THEN <<s>>
    ELSE LET n == CHOOSE i \in 1..Len(s) :
                      s[i] = "\n" /\ \A j \in 1..(i - 1) : s[j] # "\n"
         IN  <<SubSeq(s, 1, n - 1)>> \o SplitLines(SubSeq(s, n + 1, Len(s)))

\* JSON.parse: the parsed value, or "throw" (JSON allows blanks around a value)
JsonParse(line) ==
    LET t == Trim(line)
    IN  IF Len(t) = 3 /\ t[1] = "{" /\ t[3] = "}" /\ t[2] \in ObjectKinds THEN t[2]
        ELSE IF t = <<"null">> THEN "null"
        ELSE "throw"

\* an emitted event: its channel and its argument
Event(type, arg) == [type |-> type, arg |-> arg]

\* (an init event sets the session id only when none is remembered)
handleEvent_M(ev, sid) ==
    CASE ev = "i1" -> [sessionId |-> IF sid = NULL THEN "s1" ELSE sid,
                       emitted |-> <<Event("init", "s1")>>]
      [] ev = "i2" -> [sessionId |-> IF sid = NULL THEN "s2" ELSE sid,
                       emitted |-> <<Event("init", "s2")>>]
      [] ev = "a"  -> [sessionId |-> sid, emitted |-> <<Event("assistant", "")>>]
      [] ev = "t"  -> [sessionId |-> sid, emitted |-> <<Event("toolCall", "")>>]
      [] ev = "r"  -> [sessionId |-> sid, emitted |-> <<Event("result", "")>>]
      [] OTHER     -> [sessionId |-> sid, emitted |-> <<>>]

\* handleEvent: the emitted events and the remembered session id; reading
\* .type of null throws (caught by handleData)
handleEvent(ev, sid) ==
    CASE ev = "i1" -> [sessionId |-> "s1", emitted |-> <<Event("init", "s1")>>]
      [] ev = "i2" -> [sessionId |-> "s2", emitted |-> <<Event("init", "s2")>>]
      [] ev = "a"  -> [sessionId |-> sid, emitted |-> <<Event("assistant", "")>>]
      [] ev = "t"  -> [sessionId |-> sid, emitted |-> <<Event("toolCall", "")>>]
      [] ev = "r"  -> [sessionId |-> sid, emitted |-> <<Event("result", "")>>]
      [] OTHER     -> [sessionId |-> sid, emitted |-> <<>>]

\* (the try encloses the loop: the first line that is not JSON ends it)
RECURSIVE handleLines_M(_, _)
handleLines_M(lines, st) ==
    IF lines = <<>> THEN st
    ELSE LET line == Head(lines)
             ev == JsonParse(line)
             r == handleEvent(ev, st.sessionId)
         IN  IF Trim(line) = <<>> THEN handleLines_M(Tail(lines), st)
             ELSE IF ev = "throw" THEN st
             ELSE handleLines_M(Tail(lines),
                      [sessionId |-> r.sessionId,
                       emitted |-> st.emitted \o r.emitted,
                       dispatched |-> Append(st.dispatched, ev)])

\* the loop of handleData over the complete lines; st carries the session
\* id, the emitted events and the values handed to handleEvent
RECURSIVE handleLines(_, _)
handleLines(lines, st) ==
    IF lines = <<>> THEN st
    ELSE LET line == Head(lines)
             ev == JsonParse(line)
             r == handleEvent(ev, st.sessionId)
         IN  IF Trim(line) = <<>> \/ ev = "throw"
                 THEN handleLines(Tail(lines), st)
             ELSE handleLines(Tail(lines),
                      [sessionId |-> r.sessionId,
                       emitted |-> st.emitted \o r.emitted,
                       dispatched |-> Append(st.dispatched, ev)])

\* (the incomplete line is dropped)
lastSegment_M(lines) == <<>>

\* lines.pop() || "": the segment after the last newline is held back
lastSegment(lines) == lines[Len(lines)]

completeLines(lines) == SubSeq(lines, 1, Len(lines) - 1)

\* (the chunk is split without the text held back before it)
handleData_M(buf, sid, chunk) ==
    LET lines == SplitLines(chunk)
        r == handleLines(completeLines(lines),
                 [sessionId |-> sid, emitted |-> <<>>, dispatched |-> <<>>])
    IN  [buffer |-> lastSegment(lines), sessionId |-> r.sessionId,
         emitted |-> r.emitted, dispatched |-> r.dispatched]

\* handleData(chunk) on a decoder whose buffer is buf
handleData(buf, sid, chunk) ==
    LET lines == SplitLines(buf \o chunk)
        r == handleLines(completeLines(lines),
                 [sessionId |-> sid, emitted |-> <<>>, dispatched |-> <<>>])
    IN  [buffer |-> lastSegment(lines), sessionId |-> r.sessionId,
         emitted |-> r.emitted, dispatched |-> r.dispatched]

\* ------------------------------------------------------------------------
\* bridge.ts: the arguments of the chat process
\* ------------------------------------------------------------------------
\* a || b
OrElse(a, b) == IF Truthy(a) THEN a ELSE b

\* buildPrompt
buildPrompt(customInstructions, prompt) ==
    LET instructions == OptTrim(customInstructions)
    IN  IF ~TruthyStr(instructions) THEN prompt
        ELSE instructions \o <<"\n", "\n">> \o prompt

\* (options?.resumeSessionId ?? this.sessionId: null no longer starts fresh)
effectiveResumeId_M(resumeOpt, sid) ==
    IF resumeOpt \notin {UNDEF, NULL} THEN resumeOpt ELSE sid

\* options?.resumeSessionId !== undefined ? options.resumeSessionId : this.sessionId
effectiveResumeId(resumeOpt, sid) == IF resumeOpt # UNDEF THEN resumeOpt ELSE sid

\* the resume or model part of the arguments; an argument is a text
resumeOrModelArgs(resumeSessionId, model) ==
    IF Truthy(resumeSessionId) THEN << <<"--resume=", resumeSessionId>> >>
    ELSE IF Truthy(model) THEN << <<"--model">>, <<model>> >>
    ELSE <<>>

\* the argument list send() composes
buildArgs(opts, resumeOpt, sid, authArgs, prompt) ==
    << <<"-p">>, buildPrompt(opts.customInstructions, prompt),
       <<"--output-format">>, <<"stream-json">>, <<"--approve-mcps">> >>
    \o authArgs
    \o resumeOrModelArgs(effectiveResumeId(resumeOpt, sid),
                         OrElse(opts.model, opts.defaultModel))
    \o (IF opts.permissionMode = "force" THEN << <<"--force">> >> ELSE <<>>)

\* ------------------------------------------------------------------------
\* State
\* ------------------------------------------------------------------------
VARIABLES
    process,    \* CursorBridge.process: index into procs, 0 for null
    buffer,     \* CursorBridge.buffer
    sessionId,  \* CursorBridge.sessionId
    options,    \* CursorBridge.options, its settings flattened into it
    envKey,     \* process.env.CURSOR_API_KEY
    platform,   \* process.platform
    sends,      \* the calls of send(): position and locals of each
    procs,      \* the child processes spawned so far
    auth,       \* one call of getAuthConfig on its own (SpecAuth)
    dec,        \* one output stream fed to the decoder (SpecDecoder)
    composed,   \* the arguments send() composed last (SpecArgs)
    mcp,        \* the bridge with the MCP approval prompt (SpecMcp)
    run,        \* one call of execCursorAgent on its own (SpecCli)
    view,       \* the chat view and the session manager (SpecChat)
    cv,         \* the chat view CursorChatView over the bridge (SpecView)
    stream      \* the assistant texts of one turn, merged one by one (SpecMerge)

vars == <<process, buffer, sessionId, options, envKey, platform, sends,
          procs, auth, dec, composed, mcp, run, view, cv, stream>>

\* more bounds
MaxSends == 2
MaxProcs == 3
MaxChunks == 1
MaxErrLen == 1

Prompt == <<"h", "i">>

SessionIds == {"s1", "s2"}

\* resumeSessionId as a caller may pass it
ResumeOpts == {UNDEF, NULL, "", "s1"}

\* resumeSessionId as the callers of the bridge pass it (chat-view.ts passes
\* none; null starts a new conversation)
CallerResumeOpts == {UNDEF, NULL}

\* configurations of the plugin
Configs ==
    {[apiKey |-> k, cursorAgentPath |-> NoStr, customInstructions |-> NoStr,
      model |-> UNDEF, defaultModel |-> "", permissionMode |-> "default"] :
        k \in {NoStr, <<"k">>}}

NoAuth == [isAuthenticated |-> FALSE, source |-> "pending", args |-> <<>>]

\* a call of send(): pc is where it stands
\*   auth_ready  getAuthConfig has resolved, the caller's await has not resumed
\*   probe       awaiting the login probe (its spawn, then its close)
\*   chat        awaiting the spawn of the chat process
\*   resolved    the promise of send() has resolved
\*   rejected    the promise of send() has rejected
NewSend(pc) ==
    [pc |-> pc, auth |-> NoAuth, cand |-> 0, proc |-> 0, err |-> "",
     emitted |-> <<>>]

\* a child process: st is spawning, running, failed (never started) or closed
NewProc(kind, s, cmd, args) ==
    [kind |-> kind, send |-> s, cmd |-> cmd, args |-> args, st |-> "spawning",
     killed |-> FALSE, settled |-> FALSE, stdinEnded |-> FALSE,
     stderr |-> <<>>, nout |-> 0, errored |-> FALSE, emitted |-> <<>>,
     exit |-> "none"]

Candidates == getCursorAgentCommandCandidates(options.cursorAgentPath, platform)

IdleAuth == [pc |-> "idle", probeCalls |-> 0, keyRead |-> FALSE,
             res |-> [code |-> "0", stdout |-> <<>>, stderr |-> <<>>],
             isLoggedIn |-> FALSE, result |-> NoAuth]

NoArgs == [done |-> FALSE, resumeOpt |-> UNDEF, sessionId |-> NULL,
           model |-> UNDEF, defaultModel |-> "", args |-> <<>>]

IdleDec == [lines |-> <<>>, partial |-> <<>>, text |-> <<>>, pos |-> 0,
            emitted |-> <<>>, dispatched |-> <<>>]

\* the bridge with the approval prompt, before any send()
IdleMcp == [process |-> 0, procs |-> <<>>, mcpProbe |-> <<>>,
            mcpApprovalPending |-> FALSE, mcpApprovalEmitted |-> FALSE,
            ret |-> "none"]


\* no result yet
NoResult == [code |-> "none", signal |-> "none", stdout |-> <<>>, stderr |-> <<>>]

\* no error thrown yet
NoError == [code |-> "none", message |-> <<>>]

\* a call of execCursorAgent that was not made yet
\*   pc        idle, spawning (awaiting spawnCursorAgentPiped), running
\*             (awaiting the result), resolved, rejected
\*   attempts  the commands spawnOnce was called with and how each ended
\*   timer     none, armed, cleared or fired
IdleRun == [pc |-> "idle", cands |-> <<>>, attempts |-> <<>>, err |-> NoError,
            stdout |-> <<>>, stderr |-> <<>>, settled |-> FALSE,
            killed |-> FALSE, closed |-> FALSE, timer |-> "none",
            resolves |-> 0, result |-> NoResult]

\* the chat view and the session manager before the first prompt
\*   currentSession     the id of SessionManager.currentSession, or null
\*   messageHistory     SessionManager.messageHistory, <<>> for no entry
\*   pendingMessages    pendingMessagesRef.current
\*   turn               idle, sending (send() awaits), streaming (a process
\*                      is held by the bridge)
\*   stale              a cancelled process has not exited yet
\*   created            the number of messages created (createId)
\* no summary of a conversation
NoSummary == [has |-> FALSE, messageCount |-> 0, preview |-> 0]

\* conversations holds the summary of each session: whether there is one,
\* its messageCount, and as its preview the id of the user message it shows
IdleView == [currentSession |-> NULL,
             messageHistory |-> [sid \in {"s1", "s2"} |-> <<>>],
             conversations |-> [sid \in {"s1", "s2"} |-> NoSummary],
             pendingMessages |-> <<>>, streamingText |-> <<>>,
             lastFinalized |-> <<>>, showToolCalls |-> TRUE, turn |-> "idle",
             stale |-> FALSE, created |-> 0, op |-> "new"]

\* CursorChatView as opened: streamingText tells whether text was streamed,
\* mcpModal whether the approval dialog is open, added counts the assistant
\* messages added
IdleCv == [isRunning |-> FALSE, inputDisabled |-> FALSE, status |-> "Ready",
           streamingText |-> FALSE, mcpModal |-> FALSE, added |-> 0]

\* no assistant text yet
IdleStream == [deltas |-> <<>>, pos |-> 0]

Init ==
    /\ process = 0
    /\ buffer = <<>>
    /\ sessionId = NULL
    /\ options \in Configs
    /\ envKey \in {NoStr, <<"k">>}
    /\ EnvAuthenticates(envKey) => options.apiKey = NoStr
    /\ platform = "linux"
    /\ sends = <<>>
    /\ procs = <<>>
    /\ auth = IdleAuth
    /\ dec = IdleDec
    /\ composed = NoArgs
    /\ mcp = IdleMcp
    /\ run = IdleRun
    /\ view = IdleView
    /\ cv = IdleCv
    /\ stream = IdleStream

\* ------------------------------------------------------------------------
\* CursorBridge.send
\* ------------------------------------------------------------------------
rest == <<auth, dec, composed, mcp, run, view, cv, stream>>

\* spawnOnce of candidate number c for send call s: spawn() is called at once
SpawnOnce(kind, s, c, args) ==
    /\ Len(procs) < MaxProcs
    /\ procs' = Append(procs, NewProc(kind, s, Candidates[c], args))

\* send(prompt, options) up to its first await: the guard, then getAuthConfig
\* up to the environment credential or the spawn of the login probe
Send ==
    /\ Len(sends) < MaxSends
    /\ LET s == Len(sends) + 1
       IN  IF process # 0
               THEN /\ sends' = Append(sends, [NewSend("resolved") EXCEPT
                          !.emitted = <<Event("error", "already running")>>])
                    /\ UNCHANGED procs
           ELSE IF EnvAuthenticates(envKey)
               THEN /\ sends' = Append(sends,
                          [NewSend("auth_ready") EXCEPT !.auth = AuthEnv])
                    /\ UNCHANGED procs
           ELSE /\ SpawnOnce("probe", s, 1, << <<"status">> >>)
                /\ sends' = Append(sends, [NewSend("probe") EXCEPT
                       !.cand = 1, !.proc = Len(procs) + 1])
    /\ UNCHANGED <<process, buffer, sessionId, options, envKey, platform, rest>>

\* send() after await getAuthConfig: the unauthenticated return, or the
\* arguments and the spawn of the first candidate.  resumeOpt is the
\* resumeSessionId the caller passed, drawn here where it is first read.
\* the authenticated path: the arguments, then spawnOnce of the first candidate
SendSpawnsChat(s, resumeOpt) ==
    /\ SpawnOnce("chat", s, 1,
           buildArgs(options, resumeOpt, sessionId, sends[s].auth.args, Prompt))
    /\ sends' = [sends EXCEPT ![s].pc = "chat", ![s].cand = 1,
                              ![s].proc = Len(procs) + 1]

\* (the return after the error is missing)
SendUnauthenticated_M(s) ==
    /\ SpawnOnce("chat", s, 1,
           buildArgs(options, UNDEF, sessionId, sends[s].auth.args, Prompt))
    /\ sends' = [sends EXCEPT
           ![s].pc = "chat", ![s].cand = 1, ![s].proc = Len(procs) + 1,
           ![s].emitted = Append(@, Event("error", "not authenticated"))]

\* the unauthenticated path: one error event, then return
SendUnauthenticated(s) ==
    /\ sends' = [sends EXCEPT
           ![s].pc = "resolved",
           ![s].emitted = Append(@, Event("error", "not authenticated"))]
    /\ UNCHANGED procs

SendAuthResolved(s, resumeOpt) ==
    /\ s \in 1..Len(sends)
    /\ sends[s].pc = "auth_ready"
    /\ IF ~sends[s].auth.isAuthenticated
           THEN SendUnauthenticated(s)
           ELSE SendSpawnsChat(s, resumeOpt)
    /\ UNCHANGED <<process, buffer, sessionId, options, envKey, platform, rest>>

\* the 'spawn' event of a process spawnOnce awaits.  For the probe,
\* execCursorAgent goes on to await its close.  For the chat process, send()
\* stores the handle, ends stdin, clears the buffer, attaches the handlers
\* and emits 'ready'.
SpawnSucceeds(p) ==
    /\ p \in 1..Len(procs)
    /\ procs[p].st = "spawning"
    /\ LET s == procs[p].send
       IN  IF procs[p].kind = "probe"
               THEN /\ procs' = [procs EXCEPT ![p].st = "running"]
                    /\ UNCHANGED <<process, buffer, sends>>
           ELSE /\ process' = p
                /\ procs' = [procs EXCEPT ![p].st = "running",
                                          ![p].stdinEnded = TRUE]
                /\ buffer' = <<>>
                /\ sends' = [sends EXCEPT
                       ![s].pc = "resolved",
                       ![s].emitted = Append(@, Event("ready", ""))]
    /\ UNCHANGED <<sessionId, options, envKey, platform, rest>>

\* the 'error' event of a process spawnOnce awaits: spawnCursorAgentPiped
\* tries the next candidate after ENOENT and throws otherwise; nothing
\* between the throw and the caller of send() catches it
SpawnFails(p, code) ==
    /\ p \in 1..Len(procs)
    /\ procs[p].st = "spawning"
    /\ LET s == procs[p].send
           c == sends[s].cand
       IN  IF code = "ENOENT" /\ c < Len(Candidates)
               THEN /\ Len(procs) < MaxProcs
                    /\ procs' = Append([procs EXCEPT ![p].st = "failed"],
                          NewProc(procs[p].kind, s, Candidates[c + 1],
                                  procs[p].args))
                    /\ sends' = [sends EXCEPT ![s].cand = c + 1,
                                              ![s].proc = Len(procs) + 1]
           ELSE /\ procs' = [procs EXCEPT ![p].st = "failed"]
                /\ sends' = [sends EXCEPT ![s].pc = "rejected", ![s].err = code]
    /\ UNCHANGED <<process, buffer, sessionId, options, envKey, platform, rest>>

\* ------------------------------------------------------------------------
\* The login probe of a send() (execCursorAgent under checkCursorLogin)
\* ------------------------------------------------------------------------
\* what the probe may have printed when the bridge runs it
ProbeResults ==
    {[code |-> c, stdout |-> o, stderr |-> <<>>] :
        c \in ExitCodes, o \in {<<>>, <<"not", "logged", "in">>}}

\* execCursorAgent settles with res: checkCursorLogin classifies it and
\* getAuthConfig resolves
ProbeSettles(p, res) ==
    LET s == procs[p].send
    IN  sends' = [sends EXCEPT
            ![s].pc = "auth_ready",
            ![s].auth = AuthAfterProbe(checkCursorLogin(res), options.apiKey)]

\* the 'close' event of the probe
ProbeCloses(p, res) ==
    /\ p \in 1..Len(procs)
    /\ procs[p].kind = "probe"
    /\ procs[p].st = "running"
    /\ procs[p].killed => res.code = NULL
    /\ procs' = [procs EXCEPT ![p].st = "closed", ![p].settled = TRUE]
    /\ IF procs[p].settled THEN UNCHANGED sends ELSE ProbeSettles(p, res)
    /\ UNCHANGED <<process, buffer, sessionId, options, envKey, platform, rest>>

\* the timer of execCursorAgent fires before the probe has closed
ProbeTimesOut(p, out) ==
    /\ p \in 1..Len(procs)
    /\ procs[p].kind = "probe"
    /\ procs[p].st = "running"
    /\ ~procs[p].settled
    /\ procs' = [procs EXCEPT ![p].killed = TRUE, ![p].settled = TRUE]
    /\ ProbeSettles(p, [code |-> NULL, stdout |-> out, stderr |-> <<"timed", "out">>])
    /\ UNCHANGED <<process, buffer, sessionId, options, envKey, platform, rest>>

\* ------------------------------------------------------------------------
\* The handlers of setupProcessHandlers, cancel and the setters
\* ------------------------------------------------------------------------
\* what a chat process may write to stdout in one chunk, when run by the bridge
BridgeChunks == {<<"{", "i1", "}", "\n">>, <<"{", "a", "}", "\n", "{">>}

ErrChunks == {<<" ">>, <<"E">>}

IsChat(p) == p \in 1..Len(procs) /\ procs[p].kind = "chat"

\* stdout 'data' of a chat process: handleData on the bridge
ProcData(p, chunk) ==
    /\ IsChat(p)
    /\ procs[p].st = "running"
    /\ procs[p].nout < MaxChunks
    /\ LET r == handleData(buffer, sessionId, chunk)
       IN  /\ buffer' = r.buffer
           /\ sessionId' = r.sessionId
           /\ procs' = [procs EXCEPT ![p].nout = @ + 1,
                                     ![p].emitted = @ \o r.emitted]
    /\ UNCHANGED <<process, options, envKey, platform, sends, rest>>

\* stderr 'data' of a chat process: the text is accumulated for its close
ProcStderr(p, chunk) ==
    /\ IsChat(p)
    /\ procs[p].st = "running"
    /\ Len(procs[p].stderr) + Len(chunk) <= MaxErrLen
    /\ procs' = [procs EXCEPT ![p].stderr = @ \o chunk]
    /\ UNCHANGED <<process, buffer, sessionId, options, envKey, platform,
                   sends, rest>>

\* 'error' of a running chat process (it could not be killed)
ProcError(p) ==
    /\ IsChat(p)
    /\ procs[p].st = "running"
    /\ procs[p].killed
    /\ ~procs[p].errored
    /\ procs' = [procs EXCEPT ![p].errored = TRUE,
                              ![p].emitted = Append(@, Event("error", "kill failed"))]
    /\ UNCHANGED <<process, buffer, sessionId, options, envKey, platform,
                   sends, rest>>

\* (the 'close' event is emitted before the 'error' event)
closeEvents_M(code, stderr) ==
    <<Event("close", code)>>
    \o (IF code # "0" /\ Trim(stderr) # <<>>
            THEN <<Event("error", "stderr")>> ELSE <<>>)

\* the events of the 'close' handler
closeEvents(code, stderr) ==
    (IF code # "0" /\ Trim(stderr) # <<>>
         THEN <<Event("error", "stderr")>> ELSE <<>>)
    \o <<Event("close", code)>>

\* 'close' of a chat process
ProcCloses(p, code) ==
    /\ IsChat(p)
    /\ procs[p].st = "running"
    /\ ~procs[p].killed => code \in ExitCodes
    /\ process' = 0
    /\ procs' = [procs EXCEPT ![p].st = "closed", ![p].stderr = <<>>,
                    ![p].exit = code,
                    ![p].emitted = @ \o closeEvents(code, procs[p].stderr)]
    /\ UNCHANGED <<buffer, sessionId, options, envKey, platform, sends, rest>>

\* (the handle is kept)
Cancel_M ==
    /\ IF process # 0
           THEN /\ procs' = [procs EXCEPT ![process].killed = TRUE]
                /\ process' = process
       ELSE UNCHANGED <<process, procs>>
    /\ UNCHANGED <<buffer, sessionId, options, envKey, platform, sends, rest>>

\* cancel(): with a live handle the process is killed (an error of kill is
\* swallowed) and the handle is cleared; without one nothing is done
Cancel ==
    /\ IF process # 0
           THEN /\ procs' = [procs EXCEPT ![process].killed = TRUE]
                /\ process' = 0
       ELSE UNCHANGED <<process, procs>>
    /\ UNCHANGED <<buffer, sessionId, options, envKey, platform, sends, rest>>

\* setSessionId
SetSessionId(sid) ==
    /\ sessionId' = sid
    /\ UNCHANGED <<process, buffer, options, envKey, platform, sends, procs, rest>>

\* updateOptions({ model })
UpdateOptions(m) ==
    /\ options' = [options EXCEPT !.model = m]
    /\ UNCHANGED <<process, buffer, sessionId, envKey, platform, sends, procs, rest>>

Next ==
    \/ Send
    \/ \E s \in 1..Len(sends), r \in CallerResumeOpts : SendAuthResolved(s, r)
    \/ \E p \in 1..Len(procs) : SpawnSucceeds(p)
    \/ \E p \in 1..Len(procs), c \in {"ENOENT", "EACCES"} : SpawnFails(p, c)
    \/ \E p \in 1..Len(procs), res \in ProbeResults \cup
            {[code |-> NULL, stdout |-> <<>>, stderr |-> <<>>]} : ProbeCloses(p, res)
    \/ \E p \in 1..Len(procs) : ProbeTimesOut(p, <<>>)
    \/ \E p \in 1..Len(procs), ch \in BridgeChunks : ProcData(p, ch)
    \/ \E p \in 1..Len(procs), ch \in ErrChunks : ProcStderr(p, ch)
    \/ \E p \in 1..Len(procs) : ProcError(p)
    \/ \E p \in 1..Len(procs), c \in ExitCodes \cup {NULL} : ProcCloses(p, c)
    \/ Cancel
    \/ \E sid \in {NULL, "s1"} : SetSessionId(sid)

Spec == Init /\ [][Next]_vars

\* ------------------------------------------------------------------------
\* getAuthConfig on its own, for every credential and every probe output
\* ------------------------------------------------------------------------
\* values of CURSOR_API_KEY and of settings.apiKey
KeyValues == {NoStr, <<>>, <<" ">>, <<"k">>, <<" ", "k">>}

OutWords == ProbeWords \cup {"x"}

\* results of execCursorAgent(["status"]): the exit code (null after the
\* timeout) and the two captured texts, MaxOut words in all
AllProbeResults ==
    UNION {{[code |-> c, stdout |-> SubSeq(w, 1, k),
             stderr |-> SubSeq(w, k + 1, Len(w))] :
                c \in ExitCodes \cup {NULL}, k \in 0..Len(w)} :
           w \in SeqsUpTo(OutWords, MaxOut)}

InitAuth ==
    /\ process = 0
    /\ buffer = <<>>
    /\ sessionId = NULL
    /\ options \in {[apiKey |-> k, cursorAgentPath |-> NoStr,
                     customInstructions |-> NoStr, model |-> UNDEF,
                     defaultModel |-> "", permissionMode |-> "default"] :
                        k \in KeyValues}
    /\ envKey \in KeyValues
    /\ platform = "linux"
    /\ sends = <<>>
    /\ procs = <<>>
    /\ auth = IdleAuth
    /\ dec = IdleDec
    /\ composed = NoArgs
    /\ mcp = IdleMcp
    /\ run = IdleRun
    /\ view = IdleView
    /\ cv = IdleCv
    /\ stream = IdleStream

authRest == <<process, buffer, sessionId, options, envKey, platform, sends,
              procs, dec, composed, mcp, run, view, cv, stream>>

\* getAuthConfig up to its return on the environment credential or to the
\* call of checkCursorLogin (which runs the probe)
AuthStart ==
    /\ auth.pc = "idle"
    /\ IF EnvAuthenticates(envKey)
           THEN auth' = [auth EXCEPT !.pc = "returned", !.result = AuthEnv]
           ELSE auth' = [auth EXCEPT !.pc = "probing", !.probeCalls = @ + 1]
    /\ UNCHANGED authRest

\* execCursorAgent resolves with res and checkCursorLogin classifies it
AuthProbeSettles(res) ==
    /\ auth.pc = "probing"
    /\ auth' = [auth EXCEPT !.pc = "classified", !.res = res,
                            !.isLoggedIn = checkCursorLogin(res)]
    /\ UNCHANGED authRest

\* execCursorAgent throws (the probe could not be spawned): so does getAuthConfig
AuthProbeThrows ==
    /\ auth.pc = "probing"
    /\ auth' = [auth EXCEPT !.pc = "threw"]
    /\ UNCHANGED authRest

\* getAuthConfig after checkCursorLogin has returned: the configured key is
\* read only when the probe was negative
AuthReturns ==
    /\ auth.pc = "classified"
    /\ auth' = [auth EXCEPT !.pc = "returned", !.res = IdleAuth.res,
                            !.keyRead = ~auth.isLoggedIn,
                            !.result = AuthAfterProbe(auth.isLoggedIn, options.apiKey)]
    /\ UNCHANGED authRest

NextAuth ==
    \/ AuthStart
    \/ auth.pc = "probing" /\ \E res \in AllProbeResults : AuthProbeSettles(res)
    \/ AuthProbeThrows
    \/ AuthReturns

SpecAuth == InitAuth /\ [][NextAuth]_vars

\* ------------------------------------------------------------------------
\* The decoder on its own, for every output text and every way to cut it
\* ------------------------------------------------------------------------
JsonObject(k) == <<"{", k, "}">>

\* lines of the output stream (without their newline): every object, objects
\* with blanks around them, the value null, blank lines and lines that are
\* not JSON
ValidLines ==
    {JsonObject(k) : k \in ObjectKinds}
    \cup {<<" ">> \o JsonObject("a") \o <<"\r">>, <<"null">>}

InvalidLines == {<<"x">>, <<"{", "a">>, JsonObject("a") \o JsonObject("r")}

BlankLines == {<<>>, <<" ">>}

StreamLines == ValidLines \cup InvalidLines \cup BlankLines

\* the part of a line that has arrived when the text ends
PartialLines == {<<>>, <<" ">>, <<"x">>, <<"{", "a">>, JsonObject("r")}

RECURSIVE JoinLines(_)
JoinLines(lines) ==
    IF lines = <<>> THEN <<>>
    ELSE Head(lines) \o <<"\n">> \o JoinLines(Tail(lines))

\* the text of the stream: its newline-terminated lines, then the partial line
StreamText(lines, partial) == JoinLines(lines) \o partial

InitDecoder ==
    /\ process = 0
    /\ buffer = <<>>
    /\ sessionId \in {NULL, "s2"}
    /\ options \in {c \in Configs : c.apiKey = NoStr}
    /\ envKey = NoStr
    /\ platform = "linux"
    /\ sends = <<>>
    /\ procs = <<>>
    /\ auth = IdleAuth
    /\ dec \in {[lines |-> l, partial |-> t, text |-> StreamText(l, t),
                 pos |-> 0, emitted |-> <<>>, dispatched |-> <<>>] :
                    l \in SeqsUpTo(StreamLines, MaxLines), t \in PartialLines}
    /\ composed = NoArgs
    /\ mcp = IdleMcp
    /\ run = IdleRun
    /\ view = IdleView
    /\ cv = IdleCv
    /\ stream = IdleStream

\* the next n characters of the stream arrive as one 'data' chunk
Feed(n) ==
    /\ n \in 1..(Len(dec.text) - dec.pos)
    /\ LET r == handleData(buffer, sessionId,
                    SubSeq(dec.text, dec.pos + 1, dec.pos + n))
       IN  /\ buffer' = r.buffer
           /\ sessionId' = r.sessionId
           /\ dec' = [dec EXCEPT !.pos = @ + n,
                                 !.emitted = @ \o r.emitted,
                                 !.dispatched = @ \o r.dispatched]
    /\ UNCHANGED <<process, options, envKey, platform, sends, procs, auth,
                   composed, mcp, run, view, cv, stream>>

NextDecoder == \E n \in 1..Len(dec.text) : Feed(n)

SpecDecoder == InitDecoder /\ [][NextDecoder]_vars

\* ------------------------------------------------------------------------
\* The arguments send() composes, for every option and remembered id
\* ------------------------------------------------------------------------
ArgConfigs ==
    {[apiKey |-> NoStr, cursorAgentPath |-> NoStr, customInstructions |-> c,
      model |-> UNDEF, defaultModel |-> d, permissionMode |-> f] :
        c \in {NoStr, <<" ">>, <<"c">>}, d \in {"", "m2"},
        f \in {"default", "force"}}

InitArgs ==
    /\ process = 0
    /\ buffer = <<>>
    /\ sessionId = NULL
    /\ options \in ArgConfigs
    /\ envKey = NoStr
    /\ platform = "linux"
    /\ sends = <<>>
    /\ procs = <<>>
    /\ auth = IdleAuth
    /\ dec = IdleDec
    /\ composed = NoArgs
    /\ mcp = IdleMcp
    /\ run = IdleRun
    /\ view = IdleView
    /\ cv = IdleCv
    /\ stream = IdleStream

\* the lines of send() that compose args, for an authenticated call
ComposeArgs(resumeOpt, authArgs) ==
    /\ composed' = [done |-> TRUE, resumeOpt |-> resumeOpt,
                    sessionId |-> sessionId, model |-> options.model,
                    defaultModel |-> options.defaultModel,
                    args |-> buildArgs(options, resumeOpt, sessionId, authArgs, Prompt)]
    /\ UNCHANGED <<process, buffer, sessionId, options, envKey, platform,
                   sends, procs, auth, dec, mcp, run, view, cv, stream>>

NextArgs ==
    \/ \E sid \in {NULL, "", "s1", "s2"} : SetSessionId(sid)
    \/ \E m \in {UNDEF, "", "m1"} : UpdateOptions(m)
    \/ \E r \in ResumeOpts, a \in {<<>>, << <<"--api-key">>, <<"k">> >>} :
           ComposeArgs(r, a)

SpecArgs == InitArgs /\ [][NextArgs]_vars

\* ------------------------------------------------------------------------
\* The bridge with the MCP approval prompt (send, handlers, cancel, submit)
\* ------------------------------------------------------------------------
\* more bounds
MaxMcpProcs == 2
MaxMcpChunks == 2
\* the length mcpProbe is cut to (50_000 characters in the source), in tokens
McpProbeLimit == 6

\* A text of the approval prompt is a sequence of tokens:
\*   M  "MCP Server Approval Required"    A  "Approve all servers"
\*   C  "Continue without approval"       c  "Continue without"
\*   e  an ANSI escape sequence           x  other text
\* and the characters "\r" and "\n".
stripAnsi(text) == SelectSeq(text, LAMBDA t : t # "e")

\* String.prototype.lastIndexOf of a token, 0 when absent
LastIndexOf(text, tok) ==
    IF \A i \in 1..Len(text) : text[i] # tok THEN 0
    ELSE CHOOSE i \in 1..Len(text) :
             text[i] = tok /\ \A j \in (i + 1)..Len(text) : text[j] # tok

\* tryParseMcpApprovalPrompt: whether it returns a request (not null)
tryParseMcpApprovalPrompt(text) ==
    LET cleaned == SelectSeq(stripAnsi(text), LAMBDA t : t # "\r")
        idx == LastIndexOf(cleaned, "M")
        tail == SubSeq(cleaned, idx, Len(cleaned))
    IN  IF idx = 0 THEN FALSE
        ELSE IF ~Includes(tail, <<"A">>) THEN FALSE
        ELSE IF ~Includes(tail, <<"C">>) /\ ~Includes(tail, <<"c">>) THEN FALSE
        ELSE TRUE

\* a probe text that is never cut
SliceLast_M(text, n) == text

\* this.mcpProbe.slice(-50_000)
SliceLast(text, n) ==
    IF Len(text) > n THEN SubSeq(text, Len(text) - n + 1, Len(text)) ELSE text

\* ingestMcpProbe on the bridge m
ingestMcpProbe(m, text) ==
    IF m.mcpApprovalEmitted THEN m
    ELSE LET probe == SliceLast(m.mcpProbe \o text, McpProbeLimit)
         IN  IF ~tryParseMcpApprovalPrompt(probe) THEN [m EXCEPT !.mcpProbe = probe]
             ELSE [m EXCEPT !.mcpProbe = probe, !.mcpApprovalEmitted = TRUE,
                            !.mcpApprovalPending = TRUE]

\* the key written for a choice
ApprovalKey(choice) ==
    IF choice = "approveAll" THEN "a"
    ELSE IF choice = "continueWithoutApproval" THEN "c"
    ELSE "q"

McpServerApprovalChoices == {"approveAll", "continueWithoutApproval", "quit"}

\* a child process of this bridge: requests counts the mcpApprovalRequired
\* events its chunks emitted, stdin is what was written to its input,
\* stderr tells whether it wrote text that is not blank to stderr,
\* stdinEnded whether the bridge has ended its input stream
NewMcpProc ==
    [st |-> "spawning", killed |-> FALSE, stdin |-> <<>>, stdinEnded |-> FALSE,
     requests |-> 0, chunks |-> 0, stderr |-> FALSE]

\* chunks of stderr and of stdout
McpChunks == {<<"M", "A", "C">>, <<"M", "e">>, <<"A", "\r", "c">>}

McpOutChunks == {<<"M", "A", "C", "\n">>, <<"x", "\n">>}

InitMcp ==
    /\ process = 0
    /\ buffer = <<>>
    /\ sessionId = NULL
    /\ options \in {c \in Configs : c.apiKey = NoStr}
    /\ envKey = <<"k">>
    /\ platform = "linux"
    /\ sends = <<>>
    /\ procs = <<>>
    /\ auth = IdleAuth
    /\ dec = IdleDec
    /\ composed = NoArgs
    /\ mcp = IdleMcp
    /\ run = IdleRun
    /\ view = IdleView
    /\ cv = IdleCv
    /\ stream = IdleStream

mcpRest == <<process, sessionId, options, envKey, platform, sends, procs,
             auth, dec, composed, run, view, cv, stream>>

\* send() with the environment credential: the guard, then (after the
\* awaits of getAuthConfig) the arguments and the spawn.  ret is what the
\* last call or handler did.
McpSend ==
    /\ IF mcp.process # 0
           THEN mcp' = [mcp EXCEPT !.ret = "error: already running"]
       ELSE /\ Len(mcp.procs) < MaxMcpProcs
            /\ mcp' = [mcp EXCEPT !.procs = Append(@, NewMcpProc),
                                  !.ret = "none"]
    /\ UNCHANGED <<buffer, mcpRest>>

\* send() that ends the input stream after the spawn, as the bridge that
\* passes --approve-mcps does
McpSpawned_M(p) ==
    /\ p \in 1..Len(mcp.procs)
    /\ mcp.procs[p].st = "spawning"
    /\ mcp' = [mcp EXCEPT !.process = p, !.procs[p].st = "running",
                          !.procs[p].stdinEnded = TRUE,
                          !.mcpProbe = <<>>, !.mcpApprovalPending = FALSE,
                          !.mcpApprovalEmitted = FALSE, !.ret = "ready"]
    /\ buffer' = <<>>
    /\ UNCHANGED mcpRest

\* send() after await spawnCursorAgentPiped: the handle is stored, the
\* buffer, the probe text and the two flags are reset, 'ready' is emitted;
\* the input stream of the process is left as it was spawned, open
McpSpawned(p) ==
    /\ p \in 1..Len(mcp.procs)
    /\ mcp.procs[p].st = "spawning"
    /\ mcp' = [mcp EXCEPT !.process = p, !.procs[p].st = "running",
                          !.mcpProbe = <<>>, !.mcpApprovalPending = FALSE,
                          !.mcpApprovalEmitted = FALSE, !.ret = "ready"]
    /\ buffer' = <<>>
    /\ UNCHANGED mcpRest

\* spawnCursorAgentPiped throws: send() rejects
McpSpawnFails(p) ==
    /\ p \in 1..Len(mcp.procs)
    /\ mcp.procs[p].st = "spawning"
    /\ mcp' = [mcp EXCEPT !.procs[p].st = "failed", !.ret = "none"]
    /\ UNCHANGED <<buffer, mcpRest>>

\* what a chunk of process p did to the bridge: m is the bridge after
\* ingestMcpProbe, which has emitted mcpApprovalRequired if it set the latch
McpAfterChunk(p, m) ==
    LET emits == m.mcpApprovalEmitted /\ ~mcp.mcpApprovalEmitted
    IN  [m EXCEPT !.procs[p].chunks = @ + 1,
                  !.procs[p].requests = IF emits THEN @ + 1 ELSE @,
                  !.ret = IF emits THEN "mcpApprovalRequired" ELSE "none"]

\* stderr 'data' of process p: the text is kept for its close and scanned
McpStderr(p, text) ==
    /\ p \in 1..Len(mcp.procs)
    /\ mcp.procs[p].st = "running"
    /\ mcp.procs[p].chunks < MaxMcpChunks
    /\ mcp' = [McpAfterChunk(p, ingestMcpProbe(mcp, text)) EXCEPT
                  !.procs[p].stderr = TRUE]
    /\ UNCHANGED <<buffer, mcpRest>>

\* stdout 'data' of process p: handleData scans the chunk, then decodes it
McpStdout(p, text) ==
    /\ p \in 1..Len(mcp.procs)
    /\ mcp.procs[p].st = "running"
    /\ mcp.procs[p].chunks < MaxMcpChunks
    /\ mcp' = McpAfterChunk(p, ingestMcpProbe(mcp, text))
    /\ buffer' = handleData(buffer, sessionId, text).buffer
    /\ UNCHANGED mcpRest

\* 'close' of process p: the handler emits the error of a failed exit and
\* 'close', and clears the handle and the pending flag
McpClose(p, code) ==
    /\ p \in 1..Len(mcp.procs)
    /\ mcp.procs[p].st = "running"
    /\ ~mcp.procs[p].killed => code \in ExitCodes
    /\ mcp' = [mcp EXCEPT !.process = 0, !.mcpApprovalPending = FALSE,
                          !.procs[p].st = "closed",
                          !.procs[p].stderr = FALSE,
                          !.ret = IF code # "0" /\ mcp.procs[p].stderr
                                      THEN "error, close" ELSE "close"]
    /\ UNCHANGED <<buffer, mcpRest>>

\* cancel()
McpCancel ==
    /\ IF mcp.process # 0
           THEN mcp' = [mcp EXCEPT !.procs[mcp.process].killed = TRUE,
                                   !.process = 0,
                                   !.mcpApprovalPending = FALSE,
                                   !.ret = "none"]
       ELSE mcp' = [mcp EXCEPT !.ret = "none"]
    /\ UNCHANGED <<buffer, mcpRest>>

\* submitMcpServerApproval(choice): ret is what it returns; a write to an
\* ended stream is the failure the catch reports
submitMcpServerApproval(choice) ==
    /\ IF mcp.process = 0 \/ ~mcp.mcpApprovalPending
           THEN mcp' = [mcp EXCEPT !.ret = "false"]
       ELSE IF mcp.procs[mcp.process].stdinEnded
           THEN mcp' = [mcp EXCEPT !.ret = "false"]
       ELSE mcp' = [mcp EXCEPT
               !.procs[mcp.process].stdin = Append(@, ApprovalKey(choice)),
               !.mcpApprovalPending = FALSE, !.ret = "true"]
    /\ UNCHANGED <<buffer, mcpRest>>

NextMcp ==
    \/ McpSend
    \/ \E p \in 1..Len(mcp.procs) : McpSpawned(p)
    \/ \E p \in 1..Len(mcp.procs) : McpSpawnFails(p)
    \/ \E p \in 1..Len(mcp.procs), t \in McpChunks : McpStderr(p, t)
    \/ \E p \in 1..Len(mcp.procs), t \in McpOutChunks : McpStdout(p, t)
    \/ \E p \in 1..Len(mcp.procs), c \in ExitCodes \cup {NULL} : McpClose(p, c)
    \/ McpCancel
    \/ \E ch \in McpServerApprovalChoices : submitMcpServerApproval(ch)

SpecMcp == InitMcp /\ [][NextMcp]_vars

\* ------------------------------------------------------------------------
\* execCursorAgent on its own: the candidates, the spawn loop, the timer
\* ------------------------------------------------------------------------
Platforms == {"win32", "linux", "darwin"}

\* values of settings.cursorAgentPath
PathValues == {NoStr, <<>>, <<" ">>, <<"/p">>, <<" ", "/p", " ">>}

\* the error codes a spawn fails with
SpawnErrors == {"ENOENT", "EACCES"}

\* the close of a process: exit code and signal
CloseResults ==
    {[code |-> c, signal |-> NULL] : c \in ExitCodes}
    \cup {[code |-> NULL, signal |-> "SIGTERM"]}

InitCli ==
    /\ process = 0
    /\ buffer = <<>>
    /\ sessionId = NULL
    /\ options \in {[apiKey |-> NoStr, cursorAgentPath |-> c,
                     customInstructions |-> NoStr, model |-> UNDEF,
                     defaultModel |-> "", permissionMode |-> "default"] :
                        c \in PathValues}
    /\ envKey = NoStr
    /\ platform \in Platforms
    /\ sends = <<>>
    /\ procs = <<>>
    /\ auth = IdleAuth
    /\ dec = IdleDec
    /\ composed = NoArgs
    /\ mcp = IdleMcp
    /\ run = IdleRun
    /\ view = IdleView
    /\ cv = IdleCv
    /\ stream = IdleStream

cliRest == <<process, buffer, sessionId, options, envKey, platform, sends,
             procs, auth, dec, composed, mcp, view, cv, stream>>

\* an attempt of spawnOnce that has not ended
Attempt(cmd) == [cmd |-> cmd, outcome |-> "pending"]

\* execCursorAgent up to spawnOnce of the first candidate
ExecStart ==
    /\ run.pc = "idle"
    /\ run' = [run EXCEPT !.pc = "spawning", !.cands = Candidates,
                          !.attempts = <<Attempt(Candidates[1])>>]
    /\ UNCHANGED cliRest

\* (every failure moves on to the next candidate)
ExecSpawnFails_M(code) ==
    /\ run.pc = "spawning"
    /\ LET n == Len(run.attempts)
           failed == [run EXCEPT !.attempts[n].outcome = code]
       IN  IF n < Len(run.cands)
               THEN run' = [failed EXCEPT
                       !.attempts = Append(@, Attempt(run.cands[n + 1]))]
           ELSE run' = [failed EXCEPT
                   !.pc = "rejected",
                   !.err = [code |-> code,
                            message |-> << <<"spawn">>, run.cands[n], <<code>> >>]]
    /\ UNCHANGED cliRest

\* the 'error' event of the attempt in flight: after ENOENT the loop goes on
\* to the next candidate; any other error, and ENOENT of the last candidate
\* (lastErr), is thrown as it is
ExecSpawnFails(code) ==
    /\ run.pc = "spawning"
    /\ LET n == Len(run.attempts)
           failed == [run EXCEPT !.attempts[n].outcome = code]
       IN  IF code = "ENOENT" /\ n < Len(run.cands)
               THEN run' = [failed EXCEPT
                       !.attempts = Append(@, Attempt(run.cands[n + 1]))]
           ELSE run' = [failed EXCEPT
                   !.pc = "rejected",
                   !.err = [code |-> code,
                            message |-> << <<"spawn">>, run.cands[n], <<code>> >>]]
    /\ UNCHANGED cliRest

\* the 'spawn' event of the attempt in flight: the handle is returned, the
\* data handlers are attached and the timer is set
ExecSpawned ==
    /\ run.pc = "spawning"
    /\ run' = [run EXCEPT !.attempts[Len(run.attempts)].outcome = "spawn",
                          !.pc = "running", !.timer = "armed"]
    /\ UNCHANGED cliRest

\* stdout 'data'
ExecStdout(chunk) ==
    /\ run.pc \in {"running", "resolved"}
    /\ ~run.closed
    /\ Len(run.stdout) + Len(chunk) <= MaxErrLen
    /\ run' = [run EXCEPT !.stdout = @ \o chunk]
    /\ UNCHANGED cliRest

\* stderr 'data'
ExecStderr(chunk) ==
    /\ run.pc \in {"running", "resolved"}
    /\ ~run.closed
    /\ Len(run.stderr) + Len(chunk) <= MaxErrLen
    /\ run' = [run EXCEPT !.stderr = @ \o chunk]
    /\ UNCHANGED cliRest

\* (settled is not tested)
settle_M(r, result) ==
    [r EXCEPT !.settled = TRUE, !.pc = "resolved", !.result = result,
              !.resolves = @ + 1,
              !.timer = IF @ = "armed" THEN "cleared" ELSE @]

\* settle(result): the first call resolves and clears the timer
settle(r, result) ==
    IF r.settled THEN r
    ELSE [r EXCEPT !.settled = TRUE, !.pc = "resolved", !.result = result,
                   !.resolves = @ + 1,
                   !.timer = IF @ = "armed" THEN "cleared" ELSE @]

\* stderr || `Timed out after ${timeoutMs}ms`
TimedOutText(stderr) == IF stderr # <<>> THEN stderr ELSE <<"Timed out after">>

\* the timer fires: the process is killed and the result is synthesized
ExecTimeout ==
    /\ run.timer = "armed"
    /\ run' = settle([run EXCEPT !.timer = "fired", !.killed = TRUE],
                  [code |-> NULL, signal |-> "SIGTERM", stdout |-> run.stdout,
                   stderr |-> TimedOutText(run.stderr)])
    /\ UNCHANGED cliRest

\* the 'close' event of the process
ExecClose(res) ==
    /\ run.pc \in {"running", "resolved"}
    /\ ~run.closed
    /\ run' = settle([run EXCEPT !.closed = TRUE],
                  [code |-> res.code, signal |-> res.signal,
                   stdout |-> run.stdout, stderr |-> run.stderr])
    /\ UNCHANGED cliRest

NextCli ==
    \/ ExecStart
    \/ \E c \in SpawnErrors : ExecSpawnFails(c)
    \/ ExecSpawned
    \/ \E ch \in {<<"o">>} : ExecStdout(ch)
    \/ \E ch \in ErrChunks : ExecStderr(ch)
    \/ ExecTimeout
    \/ \E res \in CloseResults : ExecClose(res)

SpecCli == InitCli /\ [][NextCli]_vars

\* ------------------------------------------------------------------------
\* The chat view and the session manager: pending messages and history
\* ------------------------------------------------------------------------
\* more bounds
MaxMsgs == 3

\* a chat message; held tells whether it was put in the pending queue
\* mergeStreamingText: the incoming text replaces the text so far when it
\* begins with it, is dropped when the text so far begins with it, and
\* otherwise is appended without its longest prefix that ends the text so far
mergeStreamingText(prev, incoming) ==
    LET next == IF incoming = NoStr THEN <<>> ELSE incoming
        StartsWith(t, u) == Len(u) <= Len(t) /\ SubSeq(t, 1, Len(u)) = u
        EndsWith(t, u) ==
            Len(u) <= Len(t) /\ SubSeq(t, Len(t) - Len(u) + 1, Len(t)) = u
        maxOverlap == IF Len(prev) < Len(next) THEN Len(prev) ELSE Len(next)
        overlaps == {i \in 1..maxOverlap : EndsWith(prev, SubSeq(next, 1, i))}
    IN  IF next = <<>> THEN prev
        ELSE IF prev = <<>> THEN next
        ELSE IF next = prev THEN prev
        ELSE IF StartsWith(next, prev) THEN next
        ELSE IF StartsWith(prev, next) THEN prev
        ELSE IF overlaps # {}
            THEN LET i == CHOOSE k \in overlaps : \A j \in overlaps : j <= k
                 IN  prev \o SubSeq(next, i + 1, Len(next))
        ELSE prev \o next

\* the texts of the assistant events the chat view is given
ChatTexts == {<<"r">>, <<" ">>}

ChatMessage(id, role, held) == [id |-> id, role |-> role, held |-> held]

\* (the history of the session is started anew)
setCurrentSession_M(v, sid) ==
    [v EXCEPT !.currentSession = sid,
              !.conversations[sid] = [NoSummary EXCEPT !.has = TRUE],
              !.messageHistory[sid] = <<>>]

\* SessionManager.setCurrentSession: the summary is created when there is
\* none, the history of the session is kept
setCurrentSession(v, sid) ==
    [v EXCEPT !.currentSession = sid,
              !.conversations[sid] =
                  IF @.has THEN @ ELSE [NoSummary EXCEPT !.has = TRUE]]

\* SessionManager.addMessage: nothing without a current session; the
\* summary, when there is one, takes the new length and, for a user
\* message, the preview
addMessage(v, msg) ==
    IF v.currentSession = NULL THEN v
    ELSE LET sid == v.currentSession
             messages == Append(v.messageHistory[sid], msg)
         IN  [v EXCEPT !.messageHistory[sid] = messages,
                       !.conversations[sid] =
                           IF ~@.has THEN @
                           ELSE [@ EXCEPT
                                   !.messageCount = Len(messages),
                                   !.preview = IF msg.role = "user"
                                                   THEN msg.id ELSE @]]

\* SessionManager.clearCurrentSession
clearCurrentSession(v) == [v EXCEPT !.currentSession = NULL]

RECURSIVE addMessages(_, _)
addMessages(v, msgs) ==
    IF msgs = <<>> THEN v
    ELSE addMessages(addMessage(v, Head(msgs)), Tail(msgs))

\* a new message goes to the history of the current session, or to the
\* pending queue when there is none
keepMessage(v, role) ==
    LET id == v.created + 1
    IN  IF v.currentSession # NULL
            THEN addMessage([v EXCEPT !.created = id],
                            ChatMessage(id, role, FALSE))
        ELSE [v EXCEPT !.created = id,
                       !.pendingMessages = Append(@, ChatMessage(id, role, TRUE))]

\* (the text is neither remembered nor emptied)
finalizeStreamingMessage_M(v) ==
    LET content == Trim(v.streamingText)
    IN  IF content = <<>> \/ content = v.lastFinalized THEN v
        ELSE keepMessage(v, "assistant")

\* finalizeStreamingMessage: the trimmed text becomes an assistant message
\* unless it is empty or the text finalized last; the text is emptied
finalizeStreamingMessage(v) ==
    LET content == Trim(v.streamingText)
    IN  IF content = <<>> \/ content = v.lastFinalized THEN v
        ELSE [keepMessage([v EXCEPT !.lastFinalized = content], "assistant")
                 EXCEPT !.streamingText = <<>>]

\* finalizeStreamingMessage creates no message beyond the bound
Finalizable ==
    \/ Trim(view.streamingText) = <<>>
    \/ Trim(view.streamingText) = view.lastFinalized
    \/ view.created < MaxMsgs

InitChat ==
    /\ process = 0
    /\ buffer = <<>>
    /\ sessionId \in {NULL, "s1"}
    /\ options \in {c \in Configs : c.apiKey = NoStr}
    /\ envKey = NoStr
    /\ platform = "linux"
    /\ sends = <<>>
    /\ procs = <<>>
    /\ auth = IdleAuth
    /\ dec = IdleDec
    /\ composed = NoArgs
    /\ mcp = IdleMcp
    /\ run = IdleRun
    /\ view \in {[IdleView EXCEPT !.showToolCalls = b] : b \in BOOLEAN}
    /\ cv = IdleCv
    /\ stream = IdleStream

chatRest == <<process, buffer, options, envKey, platform, sends, procs,
              auth, dec, composed, mcp, run, cv, stream>>

\* sendPrompt up to bridge.send: refused while the bridge holds a process;
\* the remembered session becomes current, the user message is kept
sendPrompt ==
    /\ view.turn # "streaming"
    /\ view.created < MaxMsgs
    /\ LET v1 == [view EXCEPT !.streamingText = <<>>, !.lastFinalized = <<>>]
           v2 == IF Truthy(sessionId) /\ v1.currentSession = NULL
                     THEN setCurrentSession(v1, sessionId) ELSE v1
       IN  view' = [keepMessage(v2, "user") EXCEPT !.turn = "sending",
                                                   !.op = "sendPrompt"]
    /\ UNCHANGED <<sessionId, chatRest>>

\* bridge.send ends without a process (not authenticated, or it threw):
\* onError
ChatSendFails ==
    /\ view.turn = "sending"
    /\ Finalizable
    /\ view' = [finalizeStreamingMessage(view) EXCEPT !.turn = "idle",
                                                      !.op = "onError"]
    /\ UNCHANGED <<sessionId, chatRest>>

\* bridge.send has spawned the process
ChatReady ==
    /\ view.turn = "sending"
    /\ view' = [view EXCEPT !.turn = "streaming", !.op = "ready"]
    /\ UNCHANGED <<sessionId, chatRest>>

\* events arrive from the process held or from a cancelled one
Streaming == view.turn = "streaming" \/ view.stale

\* (the pending queue is not emptied)
onInit_M(sid) ==
    /\ Streaming
    /\ sessionId' = sid
    /\ view' = [addMessages(setCurrentSession(view, sid), view.pendingMessages)
                   EXCEPT !.op = "onInit"]
    /\ UNCHANGED chatRest

\* the init event: handleEvent remembers the session id, onInit makes the
\* session current and moves the pending messages to its history
onInit(sid) ==
    /\ Streaming
    /\ sessionId' = sid
    /\ view' = [addMessages(setCurrentSession(view, sid), view.pendingMessages)
                   EXCEPT !.pendingMessages = <<>>, !.op = "onInit"]
    /\ UNCHANGED chatRest

\* the assistant event: its text is merged into the streaming text
onAssistant(text) ==
    /\ Streaming
    /\ view' = [view EXCEPT
                   !.streamingText = mergeStreamingText(@, text),
                   !.op = "onAssistant"]
    /\ UNCHANGED <<sessionId, chatRest>>

onToolCall ==
    /\ Streaming
    /\ view.showToolCalls => view.created < MaxMsgs
    /\ view' = [(IF view.showToolCalls THEN keepMessage(view, "system") ELSE view)
                   EXCEPT !.op = "onToolCall"]
    /\ UNCHANGED <<sessionId, chatRest>>

onResult ==
    /\ Streaming
    /\ Finalizable
    /\ view' = [finalizeStreamingMessage(view) EXCEPT !.op = "onResult"]
    /\ UNCHANGED <<sessionId, chatRest>>

\* the close of the process held (with the error event of a failed exit)
onClose ==
    /\ view.turn = "streaming"
    /\ Finalizable
    /\ view' = [finalizeStreamingMessage(view) EXCEPT !.turn = "idle",
                                                      !.op = "onClose"]
    /\ UNCHANGED <<sessionId, chatRest>>

\* the close of a cancelled process
onStaleClose ==
    /\ view.stale
    /\ Finalizable
    /\ view' = [finalizeStreamingMessage(view) EXCEPT
                   !.stale = FALSE, !.op = "onClose",
                   !.turn = IF @ = "streaming" THEN "idle" ELSE @]
    /\ UNCHANGED <<sessionId, chatRest>>

\* stop: bridge.cancel()
stop ==
    /\ view.turn = "streaming"
    /\ view' = [view EXCEPT !.turn = "idle", !.stale = TRUE, !.op = "stop"]
    /\ UNCHANGED <<sessionId, chatRest>>

\* newConversation: refused while the bridge holds a process
newConversation ==
    /\ view.turn # "streaming"
    /\ sessionId' = NULL
    /\ view' = [clearCurrentSession(view) EXCEPT
                   !.pendingMessages = <<>>,
                   !.lastFinalized = <<>>, !.streamingText = <<>>,
                   !.op = "newConversation"]
    /\ UNCHANGED chatRest

NextChat ==
    \/ sendPrompt
    \/ ChatSendFails
    \/ ChatReady
    \/ \E sid \in SessionIds : onInit(sid)
    \/ \E text \in ChatTexts : onAssistant(text)
    \/ onToolCall
    \/ onResult
    \/ onClose
    \/ onStaleClose
    \/ stop
    \/ newConversation

SpecChat == InitChat /\ [][NextChat]_vars

\* ------------------------------------------------------------------------
\* The remembered session id: the decoder and setSessionId together
\* ------------------------------------------------------------------------
NextSession ==
    \/ NextDecoder
    \/ \E sid \in {NULL} \cup SessionIds : SetSessionId(sid)

SpecSession == InitDecoder /\ [][NextSession]_vars

\* ------------------------------------------------------------------------
\* The Stop button over the bridge: Chat.stop calls bridge.cancel() at any
\* moment of a turn, also while send() awaits getAuthConfig or the spawn
\* ------------------------------------------------------------------------
\* nothing sent yet, with or without the credential of the environment
InitIdle ==
    /\ process = 0
    /\ buffer = <<>>
    /\ sessionId = NULL
    /\ options \in {c \in Configs : c.apiKey = NoStr}
    /\ envKey \in {NoStr, <<"k">>}
    /\ platform = "linux"
    /\ sends = <<>>
    /\ procs = <<>>
    /\ auth = IdleAuth
    /\ dec = IdleDec
    /\ composed = NoArgs
    /\ mcp = IdleMcp
    /\ run = IdleRun
    /\ view = IdleView
    /\ cv = IdleCv
    /\ stream = IdleStream

\* Chat.stop: bridge.cancel(), then the view leaves the generating state
StopTurn ==
    /\ sends # <<>>
    /\ IF process # 0
           THEN /\ procs' = [procs EXCEPT ![process].killed = TRUE]
                /\ process' = 0
       ELSE UNCHANGED <<process, procs>>
    /\ view' = [view EXCEPT !.turn = "idle", !.op = "stop"]
    /\ UNCHANGED <<buffer, sessionId, options, envKey, platform, sends,
                   auth, dec, composed, mcp, run, cv, stream>>

\* the bridge goes on as before; no prompt is sent after the stop
NextStop ==
    \/ StopTurn
    \/ Next /\ (view.op = "stop" => Len(sends') = Len(sends))

SpecStop == InitIdle /\ [][NextStop]_vars

\* ------------------------------------------------------------------------
\* CursorChatView over the bridge: each step of the bridge runs the
\* listeners of the events it emits, synchronously inside emit
\* ------------------------------------------------------------------------
cvRest == <<process, options, envKey, platform, sends, procs, auth, dec,
            composed, run, view, stream>>

\* updateInputState: bridgeRunning is what bridge.isRunning() returns when
\* it is called
updateInputState(c, bridgeRunning) ==
    [c EXCEPT !.inputDisabled = c.isRunning \/ bridgeRunning]

\* what onResult, onError and onBridgeClose begin with: the dialog is
\* closed, the streamed text becomes a message, isRunning is cleared and
\* the input state is computed
finishTurn(c, bridgeRunning) ==
    updateInputState(
        [c EXCEPT !.mcpModal = FALSE,
                  !.added = IF c.streamingText THEN @ + 1 ELSE @,
                  !.streamingText = FALSE,
                  !.isRunning = FALSE],
        bridgeRunning)

\* sendPrompt, accepted by the enabled input: refused while the bridge
\* holds a process; then bridge.send, which without a credential emits
\* the error 'Not authenticated' and otherwise starts the spawn
CvSendPrompt ==
    /\ ~cv.inputDisabled
    /\ mcp.process = 0
    /\ Len(mcp.procs) < MaxMcpProcs
    /\ LET c == [updateInputState([cv EXCEPT !.isRunning = TRUE,
                                             !.streamingText = FALSE], FALSE)
                    EXCEPT !.status = "Running"]
       IN  IF EnvAuthenticates(envKey)
               THEN /\ cv' = c
                    /\ mcp' = [mcp EXCEPT !.procs = Append(@, NewMcpProc),
                                          !.ret = "none"]
           ELSE /\ cv' = [finishTurn(c, FALSE) EXCEPT !.status = "Error"]
                /\ mcp' = [mcp EXCEPT !.ret = "error: not authenticated"]
    /\ UNCHANGED <<buffer, sessionId, cvRest>>

\* the listener of one decoded event
deliver(c, ev, bridgeRunning) ==
    CASE ev.type = "assistant" -> [c EXCEPT !.streamingText = TRUE]
      [] ev.type = "result" -> [finishTurn(c, bridgeRunning) EXCEPT
                                   !.status = "Ready"]
      [] OTHER -> c

\* stdout 'data' of process p: handleData, and the listeners of its event
CvStdout(p, chunk) ==
    /\ p \in 1..Len(mcp.procs)
    /\ mcp.procs[p].st = "running"
    /\ mcp.procs[p].chunks < MaxMcpChunks
    /\ LET r == handleData(buffer, sessionId, chunk)
       IN  /\ mcp' = McpAfterChunk(p, ingestMcpProbe(mcp, chunk))
           /\ buffer' = r.buffer
           /\ sessionId' = r.sessionId
           /\ cv' = IF r.emitted = <<>> THEN cv
                    ELSE deliver(cv, r.emitted[1], mcp.process # 0)
    /\ UNCHANGED cvRest

\* stderr 'data' of process p with the approval prompt: ingestMcpProbe, and
\* onMcpApprovalRequired when the request is emitted
CvStderr(p, text) ==
    /\ p \in 1..Len(mcp.procs)
    /\ mcp.procs[p].st = "running"
    /\ mcp.procs[p].chunks < MaxMcpChunks
    /\ LET m == McpAfterChunk(p, ingestMcpProbe(mcp, text))
       IN  /\ mcp' = [m EXCEPT !.procs[p].stderr = TRUE]
           /\ cv' = IF m.ret = "mcpApprovalRequired" /\ ~cv.mcpModal
                        THEN [cv EXCEPT !.mcpModal = TRUE,
                                        !.status = "MCP approval required"]
                    ELSE cv
    /\ UNCHANGED <<buffer, sessionId, cvRest>>

\* the choice made in the approval dialog
CvSubmit(choice) ==
    /\ cv.mcpModal
    /\ LET ok == /\ mcp.process # 0
                 /\ mcp.mcpApprovalPending
                 /\ ~mcp.procs[mcp.process].stdinEnded
       IN  /\ mcp' = IF ok
                         THEN [mcp EXCEPT
                                 !.procs[mcp.process].stdin =
                                     Append(@, ApprovalKey(choice)),
                                 !.mcpApprovalPending = FALSE, !.ret = "true"]
                     ELSE [mcp EXCEPT !.ret = "false"]
           /\ cv' = [cv EXCEPT !.mcpModal = FALSE,
                               !.status = IF ~ok THEN @
                                          ELSE IF choice = "quit" THEN "Stopping"
                                          ELSE "Running"]
    /\ UNCHANGED <<buffer, sessionId, cvRest>>

\* 'close' of process p: the handler emits the error of a failed exit
\* (onError), then 'close' (onBridgeClose), and only then clears the handle
\* and the pending flag; the listeners read isRunning() before that
CvClose(p, code) ==
    /\ p \in 1..Len(mcp.procs)
    /\ mcp.procs[p].st = "running"
    /\ ~mcp.procs[p].killed => code \in ExitCodes
    /\ LET bridgeRunning == mcp.process # 0
           failed == code # "0" /\ mcp.procs[p].stderr
           c1 == IF failed
                     THEN [finishTurn(cv, bridgeRunning) EXCEPT !.status = "Error"]
                 ELSE cv
           c2 == finishTurn(c1, bridgeRunning)
       IN  /\ cv' = [c2 EXCEPT !.status = IF code = "0" THEN @
                                          ELSE IF code = NULL THEN "Stopped"
                                          ELSE "Exited"]
           /\ mcp' = [mcp EXCEPT !.process = 0, !.mcpApprovalPending = FALSE,
                                 !.procs[p].st = "closed",
                                 !.procs[p].stderr = FALSE,
                                 !.ret = IF failed THEN "error, close"
                                         ELSE "close"]
    /\ UNCHANGED <<buffer, sessionId, cvRest>>

\* stopGeneration, from the Stop button (shown while the input is disabled)
stopGeneration ==
    /\ cv.inputDisabled
    /\ cv' = [cv EXCEPT !.mcpModal = FALSE, !.status = "Stopped"]
    /\ IF mcp.process # 0
           THEN mcp' = [mcp EXCEPT !.procs[mcp.process].killed = TRUE,
                                   !.process = 0,
                                   !.mcpApprovalPending = FALSE,
                                   !.ret = "none"]
       ELSE mcp' = [mcp EXCEPT !.ret = "none"]
    /\ UNCHANGED <<buffer, sessionId, cvRest>>

\* 'ready' and a rejected send() have no listener in the view; the stdout
\* chunks are an assistant line and a result line
NextView ==
    \/ CvSendPrompt
    \/ \E p \in 1..Len(mcp.procs) : McpSpawned(p)
    \/ \E p \in 1..Len(mcp.procs) : McpSpawnFails(p)
    \/ \E p \in 1..Len(mcp.procs),
          ch \in {<<"{", "a", "}", "\n">>, <<"{", "r", "}", "\n">>} :
            CvStdout(p, ch)
    \/ \E p \in 1..Len(mcp.procs) : CvStderr(p, <<"M", "A", "C">>)
    \/ \E ch \in McpServerApprovalChoices : CvSubmit(ch)
    \/ \E p \in 1..Len(mcp.procs), c \in ExitCodes \cup {NULL} : CvClose(p, c)
    \/ stopGeneration

SpecView == InitIdle /\ [][NextView]_vars

\* ------------------------------------------------------------------------
\* mergeStreamingText on its own: the texts of the assistant events of one
\* turn, merged into the streaming text one by one
\* ------------------------------------------------------------------------
MaxDeltas == 3

\* the text of an assistant event
Deltas == {<<"a">>, <<"b">>, <<"a", "b">>, <<"b", "a">>, <<" ">>}

InitMerge ==
    /\ process = 0
    /\ buffer = <<>>
    /\ sessionId = NULL
    /\ options \in {c \in Configs : c.apiKey = NoStr}
    /\ envKey = NoStr
    /\ platform = "linux"
    /\ sends = <<>>
    /\ procs = <<>>
    /\ auth = IdleAuth
    /\ dec = IdleDec
    /\ composed = NoArgs
    /\ mcp = IdleMcp
    /\ run = IdleRun
    /\ view = [IdleView EXCEPT !.turn = "streaming"]
    /\ cv = IdleCv
    /\ stream \in {[deltas |-> ds, pos |-> 0] : ds \in SeqsUpTo(Deltas, MaxDeltas)}

\* onAssistant for the next event of the turn
MergeNext ==
    /\ stream.pos < Len(stream.deltas)
    /\ stream' = [stream EXCEPT !.pos = @ + 1]
    /\ view' = [view EXCEPT
                   !.streamingText =
                       mergeStreamingText(@, stream.deltas[stream.pos + 1]),
                   !.op = "onAssistant"]
    /\ UNCHANGED <<process, buffer, sessionId, options, envKey, platform,
                   sends, procs, auth, dec, composed, mcp, run, cv>>

\* the close of the turn: the merged text is finalized
MergeCloses ==
    /\ stream.pos = Len(stream.deltas)
    /\ view.turn = "streaming"
    /\ view' = [finalizeStreamingMessage(view) EXCEPT !.turn = "idle",
                                                      !.op = "onClose"]
    /\ UNCHANGED <<process, buffer, sessionId, options, envKey, platform,
                   sends, procs, auth, dec, composed, mcp, run, cv, stream>>

NextMerge == MergeNext \/ MergeCloses

SpecMerge == InitMerge /\ [][NextMerge]_vars

\* ------------------------------------------------------------------------
\* SessionManager on its own: setCurrentSession, addMessage and
\* clearCurrentSession called in any order
\* ------------------------------------------------------------------------
LedgerSetCurrent(sid) ==
    /\ view' = [setCurrentSession(view, sid) EXCEPT !.op = "setCurrentSession"]
    /\ UNCHANGED <<sessionId, chatRest>>

LedgerAdd(role) ==
    /\ view.created < MaxMsgs
    /\ LET id == view.created + 1
       IN  view' = [addMessage([view EXCEPT !.created = id],
                               ChatMessage(id, role, FALSE))
                       EXCEPT !.op = "addMessage"]
    /\ UNCHANGED <<sessionId, chatRest>>

LedgerClear ==
    /\ view' = [clearCurrentSession(view) EXCEPT !.op = "clearCurrentSession"]
    /\ UNCHANGED <<sessionId, chatRest>>

NextLedger ==
    \/ \E sid \in SessionIds : LedgerSetCurrent(sid)
    \/ \E role \in {"user", "assistant"} : LedgerAdd(role)
    \/ LedgerClear

SpecLedger == InitIdle /\ [][NextLedger]_vars


\* ========================================================================
\* Properties
\* ========================================================================
SendIds == 1..Len(sends)
ProcIds == 1..Len(procs)

\* the chat processes that run and were not killed
LiveChats ==
    {p \in ProcIds : procs[p].kind = "chat" /\ procs[p].st = "running"
                     /\ ~procs[p].killed}

\* C1: at most one agent process spawned by send() is alive at any time
\* (a send() issued while an earlier one is still spawning is rejected
\* with the 'already running' error and spawns no second process).
C1_AtMostOneProcess == Cardinality(LiveChats) <= 1

\* C2: send() never rejects: a failed spawn of the probe or of the chat
\* process is delivered as an 'error' event and the promise resolves.
C2_SendNeverRejects == \A s \in SendIds : sends[s].pc # "rejected"

\* a call of send() that returned on the unauthenticated path
ReturnedUnauthenticated(s) ==
    sends[s].pc = "resolved" /\ sends[s].auth.source = "none"

C3_After ==
    \A s \in SendIds :
        ReturnedUnauthenticated(s) =>
            /\ sends[s].emitted = <<Event("error", "not authenticated")>>
            /\ \A p \in ProcIds : procs[p].kind = "chat" => procs[p].send # s
            /\ (\A p \in ProcIds : procs[p].kind # "chat") => process = 0

C3_Step ==
    \A s \in SendIds :
        (/\ sends[s].pc = "auth_ready"
         /\ ~sends[s].auth.isAuthenticated
         /\ sends'[s] # sends[s])
        => /\ ReturnedUnauthenticated(s)'
           /\ sends'[s].emitted = Append(sends[s].emitted,
                                         Event("error", "not authenticated"))
           /\ process' = process
           /\ sessionId' = sessionId
           /\ buffer' = buffer
           /\ procs' = procs

\* C3: when auth resolution returns unauthenticated, send() emits exactly
\* one 'error' event, spawns no chat process, emits neither 'ready' nor
\* 'close', and leaves the handle, the buffer and the remembered session id
\* of the bridge as they were.
C3_Unauthenticated == [](C3_After) /\ [][C3_Step]_vars

C3_Witness == \E s \in SendIds : ReturnedUnauthenticated(s)

\* C4 as claimed: with a non-empty CURSOR_API_KEY getAuthConfig returns
\* source 'env' and neither runs the probe nor reads the configured key.
C4_EnvNonEmpty ==
    (envKey # NoStr /\ envKey # <<>>) =>
        /\ auth.probeCalls = 0
        /\ ~auth.keyRead
        /\ auth.pc = "returned" => auth.result = AuthEnv

\* C4 as amended: with a CURSOR_API_KEY that is non-empty after trimming,
\* getAuthConfig returns source 'env' with no extra arguments and neither
\* runs the probe nor reads the configured key.
C4_EnvNonBlank ==
    (envKey # NoStr /\ Trim(envKey) # <<>>) =>
        /\ auth.pc \in {"idle", "returned"}
        /\ auth.probeCalls = 0
        /\ ~auth.keyRead
        /\ auth.pc = "returned" =>
               auth.result = [isAuthenticated |-> TRUE, source |-> "env",
                              args |-> <<>>]

C4_Witness ==
    /\ auth.pc = "returned"
    /\ envKey = <<" ", "k">>
    /\ options.apiKey = <<"k">>
    /\ auth.result.source = "env"

\* getAuthConfig has returned after a negative probe
ReturnedAfterNegativeProbe ==
    auth.pc = "returned" /\ auth.probeCalls = 1 /\ ~auth.isLoggedIn

ApiKeyResult(key) ==
    [isAuthenticated |-> TRUE, source |-> "api-key",
     args |-> << <<"--api-key">>, key >>]

NoneResult == [isAuthenticated |-> FALSE, source |-> "none", args |-> <<>>]

\* C5 as claimed: with no environment credential and a negative probe the
\* result is 'api-key' with the pair --api-key, key iff the configured key
\* is non-empty, and unauthenticated 'none' otherwise.
C5_ApiKeyIffNonEmpty ==
    (ReturnedAfterNegativeProbe /\ envKey \in {NoStr, <<>>}) =>
        IF options.apiKey # NoStr /\ options.apiKey # <<>>
            THEN auth.result = ApiKeyResult(options.apiKey)
            ELSE auth.result = NoneResult

\* C5 as amended: after a negative probe the result is 'api-key' with the
\* pair --api-key, key (the key as configured) iff the configured key is
\* non-empty after trimming, and unauthenticated 'none' otherwise.
C5_ApiKeyIffNonBlank ==
    ReturnedAfterNegativeProbe =>
        IF options.apiKey # NoStr /\ Trim(options.apiKey) # <<>>
            THEN auth.result = ApiKeyResult(options.apiKey)
            ELSE auth.result = NoneResult

C5_Witness ==
    /\ ReturnedAfterNegativeProbe
    /\ options.apiKey = <<" ", "k">>
    /\ auth.result.source = "api-key"

\* the combined text of a probe result, lower-cased
ProbeText(res) == ToLowerCase(res.stdout \o <<"\n">> \o res.stderr)

SaysNotLogged(res) == Includes(ProbeText(res), <<"not", "logged">>)

SaysLoggedIn(res) ==
    \/ Includes(ProbeText(res), <<"logged", "in">>)
    \/ Includes(ProbeText(res), <<"authenticated">>)

\* C6 as claimed: the text decides first ('not logged': no; else 'logged
\* in' or 'authenticated': yes, for every exit code); the exit code decides
\* only when neither phrase occurs.
C6_TextFirst ==
    auth.pc = "classified" =>
        auth.isLoggedIn =
            IF SaysNotLogged(auth.res) THEN FALSE
            ELSE IF SaysLoggedIn(auth.res) THEN TRUE
            ELSE auth.res.code = "0"

\* C6 as amended: a probe whose exit code is not zero (null included) is
\* not logged in whatever its text; with exit code zero the probe is
\* logged in unless its text contains 'not logged'.
C6_ExitCodeFirst ==
    auth.pc = "classified" =>
        auth.isLoggedIn = (auth.res.code = "0" /\ ~SaysNotLogged(auth.res))

C6_Witness ==
    /\ auth.pc = "classified"
    /\ auth.res.code = "1"
    /\ auth.res.stdout = <<"Logged", "in">>
    /\ ~auth.isLoggedIn

\* the whole stream has been fed to the decoder
Fed == dec.pos = Len(dec.text)

LineIds == 1..Len(dec.lines)

\* the events of the data model: Init, UserEcho, AssistantDelta, ToolCall, Result
StructuredLine(line) == JsonParse(line) \in {"i1", "i2", "u", "a", "t", "r"}

AllStructured == \A i \in LineIds : StructuredLine(dec.lines[i])

\* the lines handleEvent emits an event for
EmittingLine(line) == JsonParse(line) \in {"i1", "i2", "a", "t", "r"}

\* C7 as claimed: a text of N newline-terminated structured lines and a
\* partial line, cut into chunks in any way, emits exactly N events and
\* leaves the partial line in the buffer.
C7_NEvents ==
    (Fed /\ AllStructured) =>
        /\ Len(dec.emitted) = Len(dec.lines)
        /\ buffer = dec.partial

\* C7 as amended: such a text emits exactly one event for each of its
\* lines that is an init, assistant, tool_call or result object (a user
\* line emits none) and leaves the partial line in the buffer.
C7_EmittingLines ==
    (Fed /\ AllStructured) =>
        /\ Len(dec.emitted) =
               Cardinality({i \in LineIds : EmittingLine(dec.lines[i])})
        /\ buffer = dec.partial

C7_Witness ==
    /\ Fed
    /\ AllStructured
    /\ Len(dec.lines) = 2
    /\ dec.partial = <<"{", "a">>
    /\ buffer = dec.partial
    /\ JsonParse(dec.lines[1]) = "u"
    /\ Len(dec.emitted) = 1

ValidJson(line) == JsonParse(line) # "throw"

\* the parsed values of the lines of ls that are JSON, in order
RECURSIVE ParsedValues(_)
ParsedValues(ls) ==
    IF ls = <<>> THEN <<>>
    ELSE (IF ValidJson(Head(ls)) THEN <<JsonParse(Head(ls))>> ELSE <<>>)
         \o ParsedValues(Tail(ls))

\* C8: every line that is JSON is parsed and handed to handleEvent, also
\* after lines that are not JSON, and a line that is not JSON produces no
\* event (no 'error' event in particular).
C8_InvalidLinesSkipped ==
    Fed =>
        /\ dec.dispatched = ParsedValues(dec.lines)
        /\ Len(dec.emitted) =
               Cardinality({i \in LineIds : EmittingLine(dec.lines[i])})
        /\ \A i \in 1..Len(dec.emitted) : dec.emitted[i].type # "error"

C8_Witness ==
    /\ Fed
    /\ Len(dec.lines) = 2
    /\ dec.lines[1] \in InvalidLines
    /\ JsonParse(dec.lines[2]) = "a"
    /\ dec.dispatched = <<"a">>
    /\ dec.emitted = <<Event("assistant", "")>>

\* the number of newlines among the first n characters of the stream
Completed(n) == Cardinality({i \in 1..n : dec.text[i] = "\n"})

\* the event a line emits, in a sequence
RECURSIVE EventsOfLines(_)
EventsOfLines(ls) ==
    IF ls = <<>> THEN <<>>
    ELSE LET k == JsonParse(Head(ls))
         IN  (CASE k \in {"i1", "i2"} ->
                       <<Event("init", IF k = "i1" THEN "s1" ELSE "s2")>>
                [] k = "a" -> <<Event("assistant", "")>>
                [] k = "t" -> <<Event("toolCall", "")>>
                [] k = "r" -> <<Event("result", "")>>
                [] OTHER -> <<>>)
             \o EventsOfLines(Tail(ls))

\* C9: the events delivered so far are those of the lines completed so
\* far, in the order of the lines, however the stream was cut into chunks.
C9_LineOrder ==
    dec.emitted = EventsOfLines(SubSeq(dec.lines, 1, Completed(dec.pos)))

C9_Witness ==
    /\ Len(dec.lines) = 2
    /\ Completed(dec.pos) = 1
    /\ buffer # <<>>
    /\ dec.pos < Len(dec.text)
    /\ dec.emitted = <<Event("init", "s1")>>
    /\ JsonParse(dec.lines[2]) = "r"

HasResume(args) ==
    \E i \in 1..Len(args) : args[i] # <<>> /\ args[i][1] = "--resume="

HasModel(args) == \E i \in 1..Len(args) : args[i] = <<"--model">>

\* the resume id send() is to use: the explicit option when one is given
\* (null meaning none), the remembered id otherwise
EffectiveId(c) == IF c.resumeOpt = UNDEF THEN c.sessionId ELSE c.resumeOpt

NonEmptyId(v) == v # NULL /\ v # UNDEF /\ v # ""

\* C10: the arguments never hold both a resume id and a model:
\* --resume=<id> is passed, and --model omitted, exactly when the
\* effective resume id is non-empty; with no effective id, --model is
\* passed iff a model is configured.
C10_ResumeOrModel ==
    composed.done =>
        LET id == EffectiveId(composed)
            args == composed.args
        IN  /\ ~(HasResume(args) /\ HasModel(args))
            /\ HasResume(args) <=> NonEmptyId(id)
            /\ NonEmptyId(id) =>
                   \E i \in 1..Len(args) : args[i] = <<"--resume=", id>>
            /\ ~NonEmptyId(id) =>
                   (HasModel(args) <=>
                        (NonEmptyId(composed.model) \/ composed.defaultModel # ""))

C10_Witness ==
    /\ composed.done
    /\ composed.resumeOpt = NULL
    /\ composed.sessionId = "s1"
    /\ composed.model = "m1"
    /\ HasModel(composed.args)
    /\ ~HasResume(composed.args)

\* ------------------------------------------------------------------------
\* C11  mcpApprovalRequired is emitted at most once per invocation
\* ------------------------------------------------------------------------
McpProcIds == 1..Len(mcp.procs)

\* C11: the chunks of one invocation (one spawned process) emit
\* mcpApprovalRequired at most once, whatever text follows the first request
C11_OncePerInvocation ==
    \A p \in McpProcIds : mcp.procs[p].requests <= 1

\* ------------------------------------------------------------------------
\* C12  submitMcpServerApproval succeeds iff a request is pending
\* ------------------------------------------------------------------------
\* process p is live, its approval request was emitted and not answered
Unanswered(p) ==
    /\ mcp.procs[p].st = "running"
    /\ ~mcp.procs[p].killed
    /\ mcp.procs[p].requests > 0
    /\ mcp.procs[p].stdin = <<>>

\* C12: submitMcpServerApproval returns true, having written one of the
\* keys a, c, q to the live process, if and only if a live process had an
\* unanswered approval request; otherwise it returns false and writes nothing
C12_SubmitIffPending ==
    mcp.ret \in {"true", "false"} =>
        /\ mcp.ret = "false" => ~\E p \in McpProcIds : Unanswered(p)
        /\ mcp.ret = "true" =>
               /\ mcp.process # 0
               /\ Len(mcp.procs[mcp.process].stdin) = 1
               /\ mcp.procs[mcp.process].stdin[1] \in {"a", "c", "q"}
               /\ mcp.procs[mcp.process].requests > 0

\* ------------------------------------------------------------------------
\* C13  the exit of a chat process: error (if any), then close
\* ------------------------------------------------------------------------
CloseCount(p) ==
    Cardinality({i \in 1..Len(procs[p].emitted) :
                    procs[p].emitted[i].type = "close"})

C13_Closed ==
    \A p \in ProcIds : IsChat(p) =>
        CloseCount(p) = (IF procs[p].st = "closed" THEN 1 ELSE 0)

C13_Step ==
    \A p \in ProcIds :
        (IsChat(p) /\ procs[p].st = "running" /\ procs'[p].st = "closed") =>
            LET code == procs'[p].exit
                text == Trim(procs[p].stderr)
            IN  /\ code \in ExitCodes \cup {NULL}
                /\ procs'[p].emitted = procs[p].emitted
                       \o (IF code # "0" /\ text # <<>>
                               THEN <<Event("error", "stderr")>> ELSE <<>>)
                       \o <<Event("close", code)>>
                /\ process' = 0

\* C13: the exit of a chat process emits one 'close' event carrying the exit
\* code, preceded by one 'error' event exactly when the code is not zero and
\* the accumulated stderr text is not blank, and the handle is null afterwards
C13_ExitEvents == [](C13_Closed) /\ [][C13_Step]_vars

C13_Witness ==
    \E p \in ProcIds :
        /\ IsChat(p)
        /\ procs[p].st = "closed"
        /\ procs[p].exit = "1"
        /\ Len(procs[p].emitted) >= 2
        /\ procs[p].emitted[Len(procs[p].emitted) - 1] = Event("error", "stderr")
        /\ procs[p].emitted[Len(procs[p].emitted)] = Event("close", "1")
        /\ process = 0

\* ------------------------------------------------------------------------
\* C14  cancel()
\* ------------------------------------------------------------------------
\* a chat process is killed only by cancel() on the handle that holds it, and
\* that step clears the handle and changes nothing else
C14_Step ==
    \A p \in ProcIds :
        (IsChat(p) /\ ~procs[p].killed /\ procs'[p].killed) =>
            /\ process = p
            /\ process' = 0
            /\ procs' = [procs EXCEPT ![p].killed = TRUE]
            /\ UNCHANGED <<buffer, sessionId, sends>>

\* the handlers of a cancelled process stay attached: its 'close' event is
\* emitted when it exits
C14_Later ==
    \A p \in ProcIds : (IsChat(p) /\ procs[p].killed) =>
        /\ procs[p].st \in {"running", "closed"}
        /\ procs[p].st = "running" => ENABLED ProcCloses(p, NULL)
        /\ procs[p].st = "closed" =>
               procs[p].emitted[Len(procs[p].emitted)] =
                   Event("close", procs[p].exit)

\* C14: cancel() with a live handle kills that process and clears the handle
\* in the same step (isRunning() is false at once), the 'close' event of the
\* cancelled process is still emitted when it exits, and nothing is killed or
\* changed by cancel() without a handle
C14_Cancel == [](C14_Later) /\ [][C14_Step]_vars

C14_Witness ==
    \E p \in ProcIds :
        /\ IsChat(p)
        /\ procs[p].killed
        /\ procs[p].st = "closed"
        /\ CloseCount(p) = 1

\* ------------------------------------------------------------------------
\* C15  spawnCursorAgentPiped tries the candidates in order
\* ------------------------------------------------------------------------
AttemptIds == 1..Len(run.attempts)

\* C15: the k-th attempt runs the k-th candidate, every attempt but the last
\* failed with ENOENT, only the last can be in flight, and nothing is
\* attempted after a successful start or after a failure that is not ENOENT,
\* which is the error thrown
C15_InOrder ==
    /\ Len(run.attempts) <= Len(run.cands)
    /\ \A k \in AttemptIds :
           /\ run.attempts[k].cmd = run.cands[k]
           /\ k < Len(run.attempts) => run.attempts[k].outcome = "ENOENT"
    /\ run.pc = "spawning" =>
           run.attempts[Len(run.attempts)].outcome = "pending"
    /\ run.pc \in {"running", "resolved"} =>
           run.attempts[Len(run.attempts)].outcome = "spawn"
    /\ run.pc = "rejected" =>
           /\ run.attempts[Len(run.attempts)].outcome = run.err.code
           /\ run.err.code = "ENOENT" => Len(run.attempts) = Len(run.cands)

\* the fourth candidate starts after three missing ones
C15_Witness ==
    /\ Len(run.cands) = 4
    /\ Len(run.attempts) = 4
    /\ run.attempts[4].outcome = "spawn"

\* ------------------------------------------------------------------------
\* C16  the error when every candidate is missing
\* ------------------------------------------------------------------------
AllMissing ==
    /\ run.pc = "rejected"
    /\ \A k \in AttemptIds : run.attempts[k].outcome = "ENOENT"

\* C16: when every candidate failed with ENOENT, the error thrown names all
\* the candidates searched
C16_NamesCandidates ==
    AllMissing =>
        \A k \in 1..Len(run.cands) : Includes(run.err.message, <<run.cands[k]>>)

\* ------------------------------------------------------------------------
\* C17  getCursorAgentCommandCandidates
\* ------------------------------------------------------------------------
PlatformCandidates ==
    IF platform = "win32"
        THEN << <<"cursor-agent.cmd">>, <<"cursor-agent.exe">>,
                <<"cursor-agent.bat">>, <<"cursor-agent">> >>
    ELSE << <<"cursor-agent">> >>

\* C17 as stated: a configured (non-empty) path is the only candidate, as
\* configured; without one the candidates are those of the platform
C17_ConfiguredPath ==
    run.pc # "idle" =>
        IF TruthyStr(options.cursorAgentPath)
            THEN run.cands = <<options.cursorAgentPath>>
        ELSE run.cands = PlatformCandidates

\* C17: a path that is not blank is the only candidate, trimmed, on every
\* platform; with no path or a blank one the candidates are the four names
\* in order on win32 and the bare name elsewhere
C17_TrimmedPath ==
    run.pc # "idle" =>
        IF TruthyStr(OptTrim(options.cursorAgentPath))
            THEN run.cands = <<Trim(options.cursorAgentPath)>>
        ELSE run.cands = PlatformCandidates

C17_Witness ==
    /\ run.pc # "idle"
    /\ platform = "win32"
    /\ options.cursorAgentPath = <<" ", "/p", " ">>
    /\ run.cands = << <<"/p">> >>

\* ------------------------------------------------------------------------
\* C18  execCursorAgent resolves exactly once
\* ------------------------------------------------------------------------
C18_Once ==
    /\ run.resolves <= 1
    /\ run.settled <=> run.resolves = 1
    /\ run.pc = "resolved" <=> run.settled
    /\ run.timer = "fired" => run.killed /\ run.settled
    /\ run.closed => run.settled

\* the result once resolved stays as it is
C18_Stable == run.settled => run'.result = run.result /\ run'.resolves = 1

\* the step of the timer, with the stderr text as captured
C18_TimerStepCaptured ==
    (run.timer = "armed" /\ run'.timer = "fired") =>
        /\ ~run.closed
        /\ run'.killed
        /\ run'.result = [code |-> NULL, signal |-> "SIGTERM",
                          stdout |-> run.stdout, stderr |-> run.stderr]

\* the step of the timer, with the text the code puts for an empty stderr
C18_TimerStep ==
    (run.timer = "armed" /\ run'.timer = "fired") =>
        /\ ~run.closed
        /\ run'.killed
        /\ run'.result = [code |-> NULL, signal |-> "SIGTERM",
                          stdout |-> run.stdout,
                          stderr |-> IF run.stderr # <<>> THEN run.stderr
                                     ELSE <<"Timed out after">>]

\* the step of a close before the timer has fired
C18_CloseStep ==
    (~run.settled /\ run'.closed) =>
        /\ run'.timer = "cleared"
        /\ ~run'.killed
        /\ run'.result.code \in ExitCodes \cup {NULL}
        /\ run'.result.stdout = run.stdout
        /\ run'.result.stderr = run.stderr

AllMessages ==
    view.messageHistory["s1"] \o view.messageHistory["s2"] \o view.pendingMessages

C19_Once ==
    /\ \A i, j \in 1..Len(AllMessages) :
           AllMessages[i].id = AllMessages[j].id => i = j
    /\ \A i, j \in 1..Len(view.pendingMessages) :
           i < j => view.pendingMessages[i].id < view.pendingMessages[j].id
    /\ \A i \in 1..Len(view.pendingMessages) : view.pendingMessages[i].held

\* a message created without a current session is put at the end of the
\* pending queue; the queue changes in no other way than by being moved to
\* the history at Init or dropped by newConversation
C19_Held ==
    /\ view'.created # view.created =>
           /\ view'.created = view.created + 1
           /\ IF view'.currentSession = NULL
                  THEN /\ Len(view'.pendingMessages) = Len(view.pendingMessages) + 1
                       /\ SubSeq(view'.pendingMessages, 1, Len(view.pendingMessages))
                              = view.pendingMessages
                       /\ view'.pendingMessages[Len(view'.pendingMessages)].id
                              = view'.created
                       /\ view'.messageHistory = view.messageHistory
              ELSE view'.pendingMessages = view.pendingMessages
    /\ (view'.created = view.created
            /\ view'.pendingMessages # view.pendingMessages) =>
           /\ view'.pendingMessages = <<>>
           /\ view'.op \in {"onInit", "newConversation"}

\* the step of onInit
C19_Init ==
    view'.op = "onInit" =>
        /\ view'.currentSession = sessionId'
        /\ view'.currentSession \in SessionIds
        /\ view'.messageHistory =
               [view.messageHistory EXCEPT ![view'.currentSession] =
                    @ \o view.pendingMessages]
        /\ view'.pendingMessages = <<>>
        /\ view'.created = view.created

InitId(ev) == IF ev = "i1" THEN "s1" ELSE "s2"

\* the values handed to handleEvent by the step
Dispatched == SubSeq(dec'.dispatched, Len(dec.dispatched) + 1, Len(dec'.dispatched))

\* the session id after the events evs, sid being remembered before them
RECURSIVE AfterEvents(_, _)
AfterEvents(evs, sid) ==
    IF evs = <<>> THEN sid
    ELSE AfterEvents(Tail(evs),
             IF Head(evs) \in {"i1", "i2"} THEN InitId(Head(evs)) ELSE sid)

C20_Step ==
    /\ dec' # dec => sessionId' = AfterEvents(Dispatched, sessionId)
    /\ dec' = dec => sessionId' \in {NULL} \cup SessionIds

\* C20: the remembered session id changes only by setSessionId and by init
\* events: after a chunk it is the id of the last init event the chunk
\* completed, whatever id was remembered, and the id remembered before when
\* the chunk completed no init event
C20_SessionId == [][C20_Step]_vars

\* an init event of another session has replaced the id of an earlier one
C20_Witness ==
    /\ sessionId = "s2"
    /\ Len(dec.dispatched) = 2
    /\ dec.dispatched[1] = "i1"
    /\ dec.dispatched[2] = "i2"


C22_Bounded == Len(mcp.mcpProbe) <= McpProbeLimit

IsSuffix(t, u) ==
    Len(t) <= Len(u) /\ SubSeq(u, Len(u) - Len(t) + 1, Len(u)) = t

C22_Step ==
    /\ (mcp.mcpApprovalEmitted /\ mcp'.mcpApprovalEmitted) =>
           mcp'.mcpProbe = mcp.mcpProbe
    /\ (mcp'.mcpProbe # mcp.mcpProbe /\ mcp'.mcpProbe # <<>>) =>
           \E t \in McpChunks \cup McpOutChunks :
               /\ IsSuffix(mcp'.mcpProbe, mcp.mcpProbe \o t)
               /\ \/ mcp'.mcpProbe = mcp.mcpProbe \o t
                  \/ Len(mcp'.mcpProbe) = McpProbeLimit

C22_Probe == [](C22_Bounded) /\ [][C22_Step]_vars

\* the probe text is full and begins inside a chunk: it was cut
C22_Witness ==
    /\ Len(mcp.mcpProbe) = McpProbeLimit
    /\ mcp.mcpProbe[1] \in {"\r", "e", "c"}


\* ------------------------------------------------------------------------
\* C23 (concurrency): the exit of a cancelled chat process does not touch a
\* later invocation: when its 'close' is handled while the bridge holds
\* another process, the handle still holds that process afterwards, so
\* isRunning() stays true.
\* ------------------------------------------------------------------------
LateClose(p) ==
    /\ IsChat(p)
    /\ procs[p].killed
    /\ procs[p].st = "running"
    /\ procs'[p].st = "closed"

C23_Step ==
    \A p \in 1..Len(procs) :
        (LateClose(p) /\ process # 0 /\ process # p) => process' = process

C23_LateCloseKeepsHandle == [][C23_Step]_vars

\* ------------------------------------------------------------------------
\* C24 (concurrency): output that arrives from a chat process after it was
\* cancelled has no effect: no event is emitted for it, the session id and
\* the decoder buffer stay as they were.
\* ------------------------------------------------------------------------
LateData(p) ==
    /\ IsChat(p)
    /\ procs[p].killed
    /\ procs'[p].nout > procs[p].nout

C24_Step ==
    \A p \in 1..Len(procs) :
        LateData(p) =>
            /\ procs'[p].emitted = procs[p].emitted
            /\ sessionId' = sessionId
            /\ buffer' = buffer

C24_LateOutputIgnored == [][C24_Step]_vars

\* ------------------------------------------------------------------------
\* C26 (concurrency): mcpApprovalRequired is raised only by text of the
\* process the bridge holds, a reply is written only to a process that
\* printed the prompt, and the 'close' of another process than the one
\* held leaves the handle and the pending flag alone.
\* ------------------------------------------------------------------------
C26_Step ==
    \A p \in McpProcIds :
        /\ (mcp'.procs[p].requests > mcp.procs[p].requests /\ mcp.process # 0) =>
               mcp.process = p
        /\ mcp'.procs[p].stdin # mcp.procs[p].stdin => mcp.procs[p].requests > 0
        /\ ( /\ mcp.procs[p].st = "running"
             /\ mcp'.procs[p].st = "closed"
             /\ mcp.process # 0
             /\ mcp.process # p ) =>
               /\ mcp'.process = mcp.process
               /\ mcp'.mcpApprovalPending = mcp.mcpApprovalPending

C26_OwnProcess == [][C26_Step]_vars


\* ------------------------------------------------------------------------
\* C25 (concurrency): after the Stop button called cancel(), at whatever
\* moment of the turn, no chat process of a send() accepted before it is
\* running unless it was killed.
\* ------------------------------------------------------------------------
C25_StopTerminates ==
    view.op = "stop" =>
        \A p \in 1..Len(procs) :
            (IsChat(p) /\ procs[p].st = "running") => procs[p].killed


\* ------------------------------------------------------------------------
\* C27 (temporal): when the process of a turn exits without having been
\* cancelled, the chat view is usable once onBridgeClose has handled the
\* 'close': isRunning is cleared and the input is enabled.
\* ------------------------------------------------------------------------
C27_Step ==
    \A p \in McpProcIds :
        ( /\ mcp.procs[p].st = "running"
          /\ ~mcp.procs[p].killed
          /\ mcp'.procs[p].st = "closed" ) =>
            /\ ~cv'.isRunning
            /\ ~cv'.inputDisabled

C27_UsableAfterExit == [][C27_Step]_vars


\* ------------------------------------------------------------------------
\* C28 (algebraic): the streaming text built by mergeStreamingText from the
\* assistant texts of a turn is their concatenation in order.
\* ------------------------------------------------------------------------
RECURSIVE ConcatFirst(_, _)
ConcatFirst(texts, n) ==
    IF n = 0 THEN <<>> ELSE ConcatFirst(texts, n - 1) \o texts[n]

C28_Concatenation ==
    view.turn = "streaming" =>
        view.streamingText = ConcatFirst(stream.deltas, stream.pos)


\* ------------------------------------------------------------------------
\* C29 (safety): a step of onResult, onError or onClose adds exactly one
\* assistant message when the streamed text, trimmed, is not empty and is
\* not the text finalized last, and none otherwise; after the step nothing
\* is left to finalize, so that whatever of result, error and close follows
\* without new text adds no second message.
\* ------------------------------------------------------------------------
Finalizers == {"onResult", "onError", "onClose"}

AssistantCount(v) ==
    LET all == v.messageHistory["s1"] \o v.messageHistory["s2"]
                   \o v.pendingMessages
    IN  Len(SelectSeq(all, LAMBDA m : m.role = "assistant"))

C29_Step ==
    (view' # view /\ view'.op \in Finalizers) =>
        LET content == Trim(view.streamingText)
        IN  /\ IF content # <<>> /\ content # view.lastFinalized
                   THEN /\ AssistantCount(view') = AssistantCount(view) + 1
                        /\ view'.lastFinalized = content
               ELSE AssistantCount(view') = AssistantCount(view)
            /\ \/ Trim(view'.streamingText) = <<>>
               \/ Trim(view'.streamingText) = view'.lastFinalized

C29_NonEmptyStep ==
    ( /\ view' # view
      /\ view'.op \in Finalizers
      /\ view.streamingText # <<>>
      /\ view.lastFinalized = <<>> ) =>
        AssistantCount(view') = AssistantCount(view) + 1

C30_Step ==
    /\ (view'.op = "addMessage" /\ view.currentSession = NULL) =>
           /\ view'.messageHistory = view.messageHistory
           /\ view'.conversations = view.conversations
           /\ view'.currentSession = NULL
    /\ (view'.op = "addMessage" /\ view.currentSession # NULL /\ view' # view) =>
           \A sid \in SessionIds :
               IF sid = view.currentSession
                   THEN /\ Len(view'.messageHistory[sid]) =
                               Len(view.messageHistory[sid]) + 1
                        /\ SubSeq(view'.messageHistory[sid], 1,
                                  Len(view.messageHistory[sid])) =
                               view.messageHistory[sid]
                        /\ view'.conversations[sid].messageCount =
                               Len(view'.messageHistory[sid])
               ELSE /\ view'.messageHistory[sid] = view.messageHistory[sid]
                    /\ view'.conversations[sid] = view.conversations[sid]
    /\ view'.op = "setCurrentSession" =>
           /\ view'.messageHistory = view.messageHistory
           /\ \A sid \in SessionIds :
                  \/ view'.conversations[sid] = view.conversations[sid]
                  \/ /\ sid = view'.currentSession
                     /\ ~view.conversations[sid].has
                     /\ view'.conversations[sid] = [NoSummary EXCEPT !.has = TRUE]
    /\ view'.op = "clearCurrentSession" =>
           /\ view'.messageHistory = view.messageHistory
           /\ view'.conversations = view.conversations
           /\ view'.currentSession = NULL

C30_Counts ==
    \A sid \in SessionIds :
        view.messageHistory[sid] # <<>> =>
            /\ view.conversations[sid].has
            /\ view.conversations[sid].messageCount = Len(view.messageHistory[sid])

C30_Frame == [](C30_Counts) /\ [][C30_Step]_vars

\* a session that has messages was made current again after another one
C30_Witness ==
    /\ view.op = "setCurrentSession"
    /\ view.currentSession = "s1"
    /\ view.messageHistory["s1"] # <<>>
    /\ view.messageHistory["s2"] # <<>>

====
